---- MODULE Spec2Model ----
(***************************************************************************)
(* A model of the cangling agent: the gRPC task controller (ListTasks,     *)
(* StartTask, StopTask, StreamLogs), the config store, the registration    *)
(* client, the heartbeat scheduler and the agent process life cycle.       *)
(*                                                                         *)
(* Go strings and byte slices are sequences of one-character strings, so   *)
(* that formatting, joining, trimming and substring search are computed.   *)
(***************************************************************************)
EXTENDS Integers, Sequences, FiniteSets, TLC

VARIABLES
    tPc,        \* task controller: "idle" | "done" (one unary RPC handled)
    tOp,        \* which unary RPC was handled
    tReq,       \* the request it was given
    tExec,      \* the runtime subprocesses it launched (argument vectors)
    tOut,       \* what the runtime subprocess did (error, stdout, stderr)
    tResp,      \* the RPC result (status code and response fields)
    st,         \* the StreamLogs calls: call id -> the call's state
    fs,         \* the config files: path -> file content, or NoFile
    Config,     \* the process-wide config record (main.Config)
    cOp,        \* the last call a client made on the config store
    cPrev,      \* ... and the call before it
    agent,      \* the agent process: its main goroutine, flags and gRPC server
    hb,         \* the heartbeat goroutine and its ticker
    gh          \* history: what has happened over all the process's runs

taskVars == <<tPc, tOp, tReq, tExec, tOut, tResp>>

streamVars == <<st>>

configVars == <<fs, Config, cOp, cPrev>>

agentVars == <<agent, hb, gh>>

nonTaskVars == <<streamVars, configVars, agentVars>>

nonStreamVars == <<taskVars, configVars, agentVars>>

vars == <<taskVars, streamVars, configVars, agentVars>>

----------------------------------------------------------------------------
(* Bounds of the model *)

\* longest envs / volumes / gpus list of a StartTask request
MaxList == 2

\* most bytes a "docker logs" subprocess emits in one StreamLogs call
MaxLog == 3

\* most bytes one read of the subprocess's stdout pipe returns
MaxChunk == 2

\* most calls a client makes on the config store
MaxOps == 2

\* how many times the agent program is run, one after the other
MaxRuns == 2

\* most RPC calls in flight at once
MaxInflight == 1

\* the count of failed heartbeat reports saturates here
MaxFailed == 2

----------------------------------------------------------------------------
(* String helpers: what strings.Join, strconv.Itoa, fmt "%d",              *)
(* strings.TrimSpace and bytes.Contains compute.                           *)

Digit == <<"0", "1", "2", "3", "4", "5", "6", "7", "8", "9">>

RECURSIVE NatStr(_)
NatStr(n) == IF n < 10 THEN <<Digit[n + 1]>>
             ELSE NatStr(n \div 10) \o <<Digit[(n % 10) + 1]>>

\* strconv.Itoa / fmt.Sprintf("%d")
Itoa(n) == IF n < 0 THEN <<"-">> \o NatStr(0 - n) ELSE NatStr(n)

RECURSIVE Join(_, _)
\* strings.Join
Join(parts, sep) ==
    IF Len(parts) = 0 THEN <<>>
    ELSE IF Len(parts) = 1 THEN parts[1]
    ELSE parts[1] \o sep \o Join(Tail(parts), sep)

RECURSIVE Flatten(_)
\* concatenation of a sequence of strings / byte slices
Flatten(parts) == IF Len(parts) = 0 THEN <<>> ELSE parts[1] \o Flatten(Tail(parts))

\* unicode.IsSpace on the characters the model uses
IsSpace(c) == c \in {" ", "\n", "\t", "\r"}

RECURSIVE TrimLeft(_)
TrimLeft(s) == IF Len(s) > 0 /\ IsSpace(s[1]) THEN TrimLeft(Tail(s)) ELSE s

RECURSIVE TrimRight(_)
TrimRight(s) == IF Len(s) > 0 /\ IsSpace(s[Len(s)])
                THEN TrimRight(SubSeq(s, 1, Len(s) - 1)) ELSE s

\* strings.TrimSpace
TrimSpace(s) == TrimRight(TrimLeft(s))

\* bytes.Contains / substring test
Contains(s, sub) ==
    \E i \in 0..(Len(s) - Len(sub)) : SubSeq(s, i + 1, i + Len(sub)) = sub

\* the value of a decimal digit
DigitVal(c) == CHOOSE d \in 0..9 : Digit[d + 1] = c

IsDigits(s) == Len(s) > 0 /\ \A i \in 1..Len(s) : s[i] \in {Digit[d] : d \in 1..10}

RECURSIVE NatVal(_)
NatVal(s) == IF Len(s) = 0 THEN 0
             ELSE NatVal(SubSeq(s, 1, Len(s) - 1)) * 10 + DigitVal(s[Len(s)])

\* a decimal numeral, with an optional minus sign
IsNumeral(s) == IF Len(s) > 0 /\ s[1] = "-" THEN IsDigits(Tail(s)) ELSE IsDigits(s)

\* strconv.Atoi on a numeral
Atoi(s) == IF s[1] = "-" THEN 0 - NatVal(Tail(s)) ELSE NatVal(s)

RECURSIVE Split(_, _)
\* strings.Split on a one-character separator
Split(s, c) ==
    IF \A i \in 1..Len(s) : s[i] # c THEN <<s>>
    ELSE LET i == CHOOSE k \in 1..Len(s) : s[k] = c /\ \A j \in 1..(k - 1) : s[j] # c
         IN  <<SubSeq(s, 1, i - 1)>> \o Split(SubSeq(s, i + 1, Len(s)), c)

HasPrefix(s, p) == Len(s) >= Len(p) /\ SubSeq(s, 1, Len(p)) = p

----------------------------------------------------------------------------
(* String literals of agent/AgentServer.go *)

S_docker == <<"d", "o", "c", "k", "e", "r">>
S_run == <<"r", "u", "n">>
S_rm == <<"-", "-", "r", "m">>
S_d == <<"-", "d">>
S_name == <<"-", "-", "n", "a", "m", "e">>
S_e == <<"-", "e">>
S_v == <<"-", "v">>
S_memory == <<"-", "-", "m", "e", "m", "o", "r", "y">>
S_gpus == <<"-", "-", "g", "p", "u", "s">>
S_label == <<"-", "-", "l", "a", "b", "e", "l">>
S_managedBy == <<"m", "a", "n", "a", "g", "e", "d", "-", "b", "y", "=", "c", "a", "n", "g", "l", "i", "n", "g", "-", "g", "r", "p", "c">>
S_jobId == <<"j", "o", "b", "-", "i", "d", "=">>
S_device == <<"d", "e", "v", "i", "c", "e", "=">>
S_stop == <<"s", "t", "o", "p">>
S_ps == <<"p", "s">>
S_a == <<"-", "a">>
S_agentTest == <<"a", "g", "e", "n", "t", "-", "t", "e", "s", "t">>
S_NoSuchContainer == <<"N", "o", " ", "s", "u", "c", "h", " ", "c", "o", "n", "t", "a", "i", "n", "e", "r">>
S_ContainerQ == <<"C", "o", "n", "t", "a", "i", "n", "e", "r", " ", "'">>
S_alreadyStopped == <<"'", " ", "w", "a", "s", " ", "a", "l", "r", "e", "a", "d", "y", " ", "s", "t", "o", "p", "p", "e", "d", " ", "o", "r", " ", "d", "o", "e", "s", " ", "n", "o", "t", " ", "e", "x", "i", "s", "t", ".">>
S_stoppedOk == <<"'", " ", "s", "t", "o", "p", "p", "e", "d", " ", "s", "u", "c", "c", "e", "s", "s", "f", "u", "l", "l", "y">>
S_stopFailed == <<"D", "o", "c", "k", "e", "r", " ", "s", "t", "o", "p", " ", "f", "a", "i", "l", "e", "d", ":", " ">>
S_stderrSep == <<" ", "|", " ", "D", "o", "c", "k", "e", "r", " ", "S", "T", "D", "E", "R", "R", ":", " ">>
S_runFailed == <<"D", "o", "c", "k", "e", "r", " ", "r", "u", "n", " ", "f", "a", "i", "l", "e", "d", ":", " ">>
S_jobStarted == <<"J", "o", "b", " ", "s", "t", "a", "r", "t", "e", "d", " ", "s", "u", "c", "c", "e", "s", "s", "f", "u", "l", "l", "y", ".", " ", "I", "D", ":", " ">>
S_imageRequired == <<"F", "i", "e", "l", "d", " ", "'", "i", "m", "a", "g", "e", "'", " ", "i", "s", " ", "r", "e", "q", "u", "i", "r", "e", "d">>
S_listFailed == <<"F", "a", "i", "l", "e", "d", " ", "t", "o", " ", "l", "i", "s", "t", " ", "t", "a", "s", "k", "s", ":", " ">>

----------------------------------------------------------------------------
(* The container runtime, as the handlers see it through os/exec:          *)
(* cmd.Run() returns an error (the launch failed, or the process exited    *)
(* non-zero) or nil, and the process wrote to stdout and stderr.           *)

\* err.Error() of the errors os/exec returns
ErrText(e) ==
    CASE e = "launch" -> <<"e", "x", "e", "c", ":", " ", "n", "o", "t", " ", "f", "o", "u", "n", "d">>
      [] e = "exit"   -> <<"e", "x", "i", "t", " ", "s", "t", "a", "t", "u", "s", " ", "1">>
      [] OTHER        -> <<>>

\* sample standard outputs of "docker run -d": a container id with and
\* without surrounding whitespace
RunStdouts ==
    { <<>>,
      <<"a", "b", "\n">>,
      <<" ", "a", "b", " ", "\n">>,
      <<"\t", "a", " ", "b", "\r", "\n">>,
      <<"\n">> }

\* sample standard-error texts of the runtime
StderrTexts ==
    { <<>>,
      <<"E", "r", "r", "o", "r", ":", " ">> \o S_NoSuchContainer \o <<":", " ", "n", "\n">>,
      S_NoSuchContainer,
      <<"E", "r", "r", "o", "r", ":", " ", "n", "o", " ", "s", "u", "c", "h", " ", "c", "o", "n", "t", "a", "i", "n", "e", "r", "\n">>,
      <<"N", "o", " ", "s", "u", "c", "h", " ", "i", "m", "a", "g", "e", "\n">>,
      <<"d", "e", "n", "i", "e", "d", "\n">> }

\* what one run of the runtime can do: a launch failure produces no output,
\* a successful run prints its result (and perhaps a warning), a failed run
\* prints its complaint
RunOutcomes ==
    { [err |-> "launch", stdout |-> <<>>, stderr |-> <<>>] }
    \cup [err : {"none"}, stdout : RunStdouts, stderr : {<<>>, <<"w", "a", "r", "n", "\n">>}]
    \cup [err : {"exit"}, stdout : {<<>>, <<"o", "u", "t", "\n">>}, stderr : StderrTexts]

\* what "docker run -d" can do: it prints the container id, or fails
StartOutcomes ==
    { [err |-> "launch", stdout |-> <<>>, stderr |-> <<>>],
      [err |-> "exit", stdout |-> <<>>, stderr |-> <<>>],
      [err |-> "exit", stdout |-> <<>>, stderr |-> <<"d", "e", "n", "i", "e", "d", "\n">>] }
    \cup [err : {"none"}, stdout : RunStdouts, stderr : {<<>>}]

NoOutcome == [err |-> "none", stdout |-> <<>>, stderr |-> <<>>]

----------------------------------------------------------------------------
(* Requests *)

Ids == { <<>>, <<"j", "1">> }
Names == { <<>>, <<"n">> }
Images == { <<>>, <<"n", "g", "i", "n", "x", ":", "l", "a", "t", "e", "s", "t">> }
\* environment entries; the second one looks like a flag of the runtime
EnvEntries == { <<"A", "=", "1">>, S_name }
VolumeEntries == { <<"/", "h", ":", "/", "c">> }
MemoryValues == { 0 - 1, 0, 512 }
GpuIds == { 0, 1 }

SeqsUpTo(S, n) == UNION { [1..k -> S] : k \in 0..n }

StartTaskRequests ==
    [ Id : Ids, Name : Names, Image : Images,
      Envs : SeqsUpTo(EnvEntries, MaxList),
      Volumes : SeqsUpTo(VolumeEntries, MaxList),
      MemoryMb : MemoryValues,
      Gpus : SeqsUpTo(GpuIds, MaxList) ]

NoRequest ==
    [ Id |-> <<>>, Name |-> <<>>, Image |-> <<>>, Envs |-> <<>>,
      Volumes |-> <<>>, MemoryMb |-> 0, Gpus |-> <<>> ]

\* a StopTaskRequest carries only a name
StopTaskRequests == { [NoRequest EXCEPT !.Name = n] : n \in Names }

NoResponse == [code |-> "none", containerId |-> <<>>, message |-> <<>>]

----------------------------------------------------------------------------
(* GrpcServer.StartTask: the argument vector *)

BaseArgs == <<S_run, S_rm, S_d>>

NameArgs(req) == IF req.Name # <<>> THEN <<S_name, req.Name>> ELSE <<>>

RECURSIVE FlagEach(_, _)
\* for _, x := range xs { args = append(args, flag, x) }
FlagEach(flag, xs) ==
    IF Len(xs) = 0 THEN <<>> ELSE <<flag, xs[1]>> \o FlagEach(flag, Tail(xs))

EnvArgs(req) == FlagEach(S_e, req.Envs)

VolumeArgs(req) == FlagEach(S_v, req.Volumes)

MemoryArgsLoose(req) ==
    IF req.MemoryMb # 0 THEN <<S_memory, Itoa(req.MemoryMb) \o <<"m">>>> ELSE <<>>

MemoryArgs(req) ==
    IF req.MemoryMb > 0 THEN <<S_memory, Itoa(req.MemoryMb) \o <<"m">>>> ELSE <<>>

GpuArgs(req) ==
    IF Len(req.Gpus) > 0
    THEN <<S_gpus, S_device \o Join([i \in 1..Len(req.Gpus) |-> Itoa(req.Gpus[i])], <<",">>)>>
    ELSE <<>>

LabelArgs(req) ==
    <<S_label, S_managedBy>>
    \o (IF req.Id # <<>> THEN <<S_label, S_jobId \o req.Id>> ELSE <<>>)

StartArgsVolumesFirst(req) ==
    BaseArgs \o NameArgs(req) \o VolumeArgs(req) \o EnvArgs(req) \o MemoryArgs(req)
    \o GpuArgs(req) \o LabelArgs(req) \o <<req.Image>>

\* the vector handed to exec.CommandContext(ctx, "docker", args...)
StartArgs(req) ==
    BaseArgs \o NameArgs(req) \o EnvArgs(req) \o VolumeArgs(req) \o MemoryArgs(req)
    \o GpuArgs(req) \o LabelArgs(req) \o <<req.Image>>

StartValidNever(req) == TRUE

\* 1. Validation
StartValid(req) == req.Image # <<>>

\* the response of StartTask once the runtime has run
StartResponse(out) ==
    IF out.err # "none"
    THEN [ code |-> "Internal", containerId |-> <<>>,
           message |-> S_runFailed \o ErrText(out.err)
                       \o (IF Len(out.stderr) > 0 THEN S_stderrSep \o out.stderr ELSE <<>>) ]
    ELSE [ code |-> "OK", containerId |-> TrimSpace(out.stdout),
           message |-> S_jobStarted \o TrimSpace(out.stdout) ]

StartTask ==
    /\ UNCHANGED nonTaskVars
    /\ tPc = "idle"
    /\ \E req \in StartTaskRequests :
         /\ tOp' = "StartTask"
         /\ tReq' = req
         /\ IF ~StartValid(req)
            THEN /\ tExec' = <<>>
                 /\ tOut' = NoOutcome
                 /\ tResp' = [ code |-> "InvalidArgument", containerId |-> <<>>,
                               message |-> S_imageRequired ]
            ELSE \E out \in StartOutcomes :
                 /\ tExec' = <<StartArgs(req)>>
                 /\ tOut' = out
                 /\ tResp' = StartResponse(out)
    /\ tPc' = "done"

----------------------------------------------------------------------------
(* GrpcServer.StopTask *)

TargetName(req) == IF req.Name = <<>> THEN S_agentTest ELSE req.Name

StopToleratedNever(out) == FALSE

\* Handle "No such container" gracefully
StopTolerated(out) == Contains(out.stderr, S_NoSuchContainer)

StopResponse(req, out) ==
    IF out.err # "none"
    THEN IF StopTolerated(out)
         THEN [ code |-> "OK", containerId |-> <<>>,
                message |-> S_ContainerQ \o TargetName(req) \o S_alreadyStopped ]
         ELSE [ code |-> "Internal", containerId |-> <<>>,
                message |-> S_stopFailed \o ErrText(out.err)
                            \o (IF Len(out.stderr) > 0 THEN S_stderrSep \o out.stderr ELSE <<>>) ]
    ELSE [ code |-> "OK", containerId |-> <<>>,
           message |-> S_ContainerQ \o TargetName(req) \o S_stoppedOk ]

StopTask ==
    /\ UNCHANGED nonTaskVars
    /\ tPc = "idle"
    /\ \E req \in StopTaskRequests, out \in RunOutcomes :
         /\ tOp' = "StopTask"
         /\ tReq' = req
         /\ tExec' = << <<S_stop, TargetName(req)>> >>
         /\ tOut' = [out EXCEPT !.stdout = <<>>]   \* stdout is not captured
         /\ tResp' = StopResponse(req, out)
    /\ tPc' = "done"

----------------------------------------------------------------------------
(* api.Server.stop: the same operation on the plain-HTTP surface; WriteOk  *)
(* and WriteError wrap the message in the {code, message, data} envelope.  *)

S_colon == <<":", " ">>

HttpStopResponse(req, out) ==
    IF out.err # "none"
    THEN IF Len(out.stderr) > 0 /\ Contains(out.stderr, S_NoSuchContainer)
         THEN [ code |-> "OK", containerId |-> <<>>,
                message |-> S_ContainerQ \o TargetName(req) \o S_alreadyStopped ]
         ELSE [ code |-> "Internal", containerId |-> <<>>,
                message |-> S_stopFailed \o ErrText(out.err)
                            \o (IF Len(out.stderr) > 0 THEN S_stderrSep \o out.stderr ELSE <<>>) ]
    ELSE [ code |-> "OK", containerId |-> <<>>,
           message |-> S_ContainerQ \o TargetName(req) \o S_stoppedOk \o S_colon \o out.stdout ]

HttpStop ==
    /\ UNCHANGED nonTaskVars
    /\ tPc = "idle"
    /\ \E req \in StopTaskRequests, out \in RunOutcomes :
         /\ tOp' = "HttpStop"
         /\ tReq' = req
         /\ tExec' = << <<S_stop, TargetName(req)>> >>
         /\ tOut' = out
         /\ tResp' = HttpStopResponse(req, out)
    /\ tPc' = "done"

----------------------------------------------------------------------------
(* GrpcServer.ListTasks *)

\* CombinedOutput: stdout and stderr share one buffer
ListResponse(out) ==
    IF out.err # "none"
    THEN [ code |-> "Internal", containerId |-> <<>>,
           message |-> S_listFailed \o ErrText(out.err) ]
    ELSE [ code |-> "OK", containerId |-> <<>>, message |-> out.stdout \o out.stderr ]

ListTasks ==
    /\ UNCHANGED nonTaskVars
    /\ tPc = "idle"
    /\ \E out \in RunOutcomes :
         /\ tOp' = "ListTasks"
         /\ tReq' = NoRequest
         /\ tExec' = << <<S_ps, S_a>> >>
         /\ tOut' = out
         /\ tResp' = ListResponse(out)
    /\ tPc' = "done"

\* the server is ready for the next unary call
TaskReturn ==
    /\ UNCHANGED nonTaskVars
    /\ tPc = "done"
    /\ tPc' = "idle"
    /\ tOp' = "none"
    /\ tReq' = NoRequest
    /\ tExec' = <<>>
    /\ tOut' = NoOutcome
    /\ tResp' = NoResponse

----------------------------------------------------------------------------
(* GrpcServer.StreamLogs.  One call is a record:                           *)
(*   name     req.Name                                                     *)
(*   src      the bytes the subprocess is going to print (a finite source) *)
(*   pc       where the handler is                                         *)
(*   ctxDone  stream.Context() is cancelled                                *)
(*   sent     the chunks delivered on the stream, in order                 *)
(*   proc     the subprocess: none, running, exit0, exit1, killed          *)
(*   emitted  how many bytes of src the subprocess has written to its pipe *)
(*   read     how many of them os/exec's copy loop has read                *)
(*   buf      the copy loop's buffer (reused by every read)                *)
(*   copier   the copy loop: idle, running, eof, failed (Write failed)     *)
(*   lastWrite  what the last LogStreamWriter.Write was given and returned *)
(*   stderr   the captured standard error                                  *)
(*   runErr   the error cmd.Run() returned                                 *)
(*   result   the status the handler returned                              *)

S_initPre == <<"-", "-", "-", " ", "L", "o", "g", " ", "S", "t", "r", "e", "a", "m", " ", "I", "n", "i", "t", "i", "a", "l", "i", "z", "e", "d", " ", "f", "o", "r", " ", "'">>
S_initPost == <<"'", " ", "-", "-", "-", "\n">>
S_logErr == <<"\n", "-", "-", "-", " ", "L", "O", "G", " ", "S", "T", "R", "E", "A", "M", " ", "E", "R", "R", "O", "R", " ", "-", "-", "-", "\n", "D", "o", "c", "k", "e", "r", " ", "c", "o", "m", "m", "a", "n", "d", " ", "f", "a", "i", "l", "e", "d", ":", " ">>
S_logStderr == <<"\n", "D", "o", "c", "k", "e", "r", " ", "S", "T", "D", "E", "R", "R", ":", "\n">>

\* the i-th byte a log source prints
LogByte(i) == IF i % 2 = 1 THEN "a" ELSE "b"

LogSources == { [i \in 1..k |-> LogByte(i)] : k \in 0..MaxLog }

LogStderrs == { <<>>, S_NoSuchContainer }

NoWrite == [given |-> 0, n |-> 0, err |-> FALSE]

NewCallAtStart(name, src) ==
    [ name |-> name, src |-> src, pc |-> "start", ctxDone |-> FALSE, sent |-> <<>>,
      proc |-> "none", emitted |-> 0, read |-> 0, buf |-> <<>>, copier |-> "idle",
      lastWrite |-> [given |-> 0, n |-> 0, err |-> FALSE], stderr |-> <<>>,
      runErr |-> "none", result |-> "none" ]

NewCall(name, src) ==
    [ name |-> name, src |-> src, pc |-> "init", ctxDone |-> FALSE, sent |-> <<>>,
      proc |-> "none", emitted |-> 0, read |-> 0, buf |-> <<>>, copier |-> "idle",
      lastWrite |-> NoWrite, stderr |-> <<>>, runErr |-> "none", result |-> "none" ]

\* initMsg := fmt.Sprintf("--- Log Stream Initialized for '%s' ---\n", targetName)
InitMsg(call) ==
    S_initPre \o (IF call.name = <<>> THEN S_agentTest ELSE call.name) \o S_initPost

\* err.Error() of what cmd.Run() returned
RunErrText(e) ==
    CASE e = "exit"   -> ErrText("exit")
      [] e = "killed" -> <<"s", "i", "g", "n", "a", "l", ":", " ", "k", "i", "l", "l", "e", "d">>
      [] e = "launch" -> ErrText("launch")
      [] e = "ctx"    -> <<"c", "o", "n", "t", "e", "x", "t", " ", "c", "a", "n", "c", "e", "l", "e", "d">>
      [] OTHER        -> <<"s", "e", "n", "d", " ", "f", "a", "i", "l", "e", "d">>

ErrorMsgWithoutStderr(call) == S_logErr \o RunErrText(call.runErr)

\* errMsg of the error chunk
ErrorMsg(call) ==
    S_logErr \o RunErrText(call.runErr)
    \o (IF Len(call.stderr) > 0 THEN S_logStderr \o call.stderr ELSE <<>>)

\* stream.Send: a send on a live stream is delivered; once the stream's
\* context is cancelled a send may still be delivered or fail
SendOutcomes(call) == IF call.ctxDone THEN {TRUE, FALSE} ELSE {TRUE}

\* a delivered chunk: the bytes it holds, or (aliased) the buffer it points to
Chunk(kind, data, c) == [kind |-> kind, data |-> data, alias |-> FALSE, from |-> c]

\* the bytes a client reads from a delivered chunk
ChunkBytes(call, ch) ==
    IF ch.alias THEN SubSeq(call.buf, 1, Len(ch.data)) ELSE ch.data

\* LogStreamWriter.Write(p): the chunk it sends, a copy of p
WriteAliased(p, c) == [kind |-> "log", data |-> p, alias |-> TRUE, from |-> c]

WriteFirstByte(p, c) == Chunk("log", SubSeq(p, 1, 1), c)

WriteChunk(p, c) == Chunk("log", p, c)

\* LogStreamWriter.Write(p): what it returns
WriteReturn(p, ok) ==
    IF ok THEN [given |-> Len(p), n |-> Len(p), err |-> FALSE]
    ELSE [given |-> Len(p), n |-> 0, err |-> TRUE]

Calls == DOMAIN st

\* 1. Send initialization message
SendInit(c) ==
    /\ UNCHANGED nonStreamVars
    /\ st[c].pc = "init"
    /\ \E ok \in SendOutcomes(st[c]) :
         st' = [st EXCEPT ![c] =
                  IF ok
                  THEN [@ EXCEPT !.sent = Append(@, Chunk("init", InitMsg(st[c]), c)),
                                 !.pc = "start"]
                  ELSE [@ EXCEPT !.pc = "done", !.result = "SendError"]]

\* cmd.Run(), first half: cmd.Start().  A cancelled context makes Start
\* return the context's error without launching; the launch itself may fail.
StartCmd(c) ==
    /\ UNCHANGED nonStreamVars
    /\ st[c].pc = "start"
    /\ IF st[c].ctxDone
       THEN st' = [st EXCEPT ![c].pc = "check", ![c].runErr = "ctx"]
       ELSE \/ st' = [st EXCEPT ![c].pc = "check", ![c].runErr = "launch"]
            \/ st' = [st EXCEPT ![c].pc = "run", ![c].proc = "running",
                                ![c].copier = "running"]

\* the subprocess writes its next byte to stdout
Emit(c) ==
    /\ UNCHANGED nonStreamVars
    /\ st[c].proc = "running"
    /\ st[c].copier = "running"
    /\ st[c].emitted < Len(st[c].src)
    /\ st' = [st EXCEPT ![c].emitted = @ + 1]

\* the subprocess exits by itself: successfully once it has printed its
\* source, with a failure (and perhaps a complaint on stderr) at any time
ProcExit(c) ==
    /\ UNCHANGED nonStreamVars
    /\ st[c].proc = "running"
    /\ \/ /\ st[c].emitted = Len(st[c].src)
          /\ st' = [st EXCEPT ![c].proc = "exit0"]
       \/ \E e \in LogStderrs :
            st' = [st EXCEPT ![c].proc = "exit1", ![c].stderr = e]

\* exec.CommandContext: the context's cancellation kills the subprocess
Kill(c) ==
    /\ UNCHANGED nonStreamVars
    /\ st[c].proc = "running"
    /\ st[c].ctxDone
    /\ st' = [st EXCEPT ![c].proc = "killed"]

CopyReadSharedWriter(c) ==
    /\ UNCHANGED nonStreamVars
    /\ st[c].copier = "running"
    /\ st[c].read < st[c].emitted
    /\ \E n \in 1..MaxChunk, ok \in SendOutcomes(st[c]) :
         /\ n <= st[c].emitted - st[c].read
         /\ LET p == SubSeq(st[c].src, st[c].read + 1, st[c].read + n)
                w == CHOOSE t \in Calls : TRUE
            IN  st' = IF ok
                      THEN [st EXCEPT ![c] = [@ EXCEPT !.buf = p, !.read = @ + n,
                                                      !.lastWrite = WriteReturn(p, TRUE)],
                                      ![w].sent = Append(@, WriteChunk(p, c))]
                      ELSE [st EXCEPT ![c] = [@ EXCEPT !.buf = p, !.read = @ + n,
                                                      !.lastWrite = WriteReturn(p, FALSE),
                                                      !.copier = "failed"]]

\* os/exec's copy loop reads what is in the pipe into its buffer and hands
\* it to LogStreamWriter.Write
CopyRead(c) ==
    /\ UNCHANGED nonStreamVars
    /\ st[c].copier = "running"
    /\ st[c].read < st[c].emitted
    /\ \E n \in 1..MaxChunk, ok \in SendOutcomes(st[c]) :
         /\ n <= st[c].emitted - st[c].read
         /\ LET p == SubSeq(st[c].src, st[c].read + 1, st[c].read + n)
            IN  st' = [st EXCEPT ![c] =
                  IF ok
                  THEN [@ EXCEPT !.buf = p, !.read = @ + n,
                                 !.sent = Append(@, WriteChunk(p, c)),
                                 !.lastWrite = WriteReturn(p, TRUE)]
                  ELSE [@ EXCEPT !.buf = p, !.read = @ + n,
                                 !.lastWrite = WriteReturn(p, FALSE),
                                 !.copier = "failed"]]

\* the copy loop reaches the end of the pipe after the subprocess is gone
CopyEOF(c) ==
    /\ UNCHANGED nonStreamVars
    /\ st[c].copier = "running"
    /\ st[c].proc \in {"exit0", "exit1", "killed"}
    /\ st[c].read = st[c].emitted
    /\ st' = [st EXCEPT ![c].copier = "eof"]

\* the error cmd.Wait() returns: the exit status first, else the copy error
WaitErr(call) ==
    CASE call.proc = "exit1"     -> "exit"
      [] call.proc = "killed"    -> "killed"
      [] call.copier = "failed"  -> "copy"
      [] OTHER                   -> "none"

\* cmd.Run(), second half: cmd.Wait() returns when the subprocess is gone
\* and the copy loop has finished
RunReturn(c) ==
    /\ UNCHANGED nonStreamVars
    /\ st[c].pc = "run"
    /\ st[c].proc \in {"exit0", "exit1", "killed"}
    /\ st[c].copier \in {"eof", "failed"}
    /\ st' = [st EXCEPT ![c] =
                IF WaitErr(st[c]) = "none"
                THEN [@ EXCEPT !.pc = "done", !.result = "OK"]
                ELSE [@ EXCEPT !.pc = "check", !.runErr = WaitErr(st[c])]]

DisconnectIgnored(call) == FALSE

\* Check if error is due to client disconnect
Disconnected(call) == call.ctxDone

CheckCtx(c) ==
    /\ UNCHANGED nonStreamVars
    /\ st[c].pc = "check"
    /\ st' = [st EXCEPT ![c] =
                IF Disconnected(st[c])
                THEN [@ EXCEPT !.pc = "done", !.result = "OK"]
                ELSE [@ EXCEPT !.pc = "errsend"]]

\* Send error details to client before closing; the send's own error is dropped
SendError(c) ==
    /\ UNCHANGED nonStreamVars
    /\ st[c].pc = "errsend"
    /\ \E ok \in SendOutcomes(st[c]) :
         st' = [st EXCEPT ![c] =
                  [@ EXCEPT !.sent = IF ok THEN Append(@, Chunk("error", ErrorMsg(st[c]), c))
                                     ELSE @,
                            !.pc = "done", !.result = "Internal"]]

\* the client disconnects (or the call's deadline passes) during the call
Cancel(c) ==
    /\ UNCHANGED nonStreamVars
    /\ st[c].pc # "done"
    /\ ~st[c].ctxDone
    /\ st' = [st EXCEPT ![c].ctxDone = TRUE]

\* no StreamLogs call
NoStreams == [c \in {} |-> NewCall(<<>>, <<>>)]

----------------------------------------------------------------------------
(* The config store (package config).  A config file is a TOML document,   *)
(* a sequence of lines:                                                    *)
(*     [server]                                                            *)
(*     port = 50051                                                        *)
(*     agentId = ''                                                        *)
(*     serverUrl = ''                                                      *)

DefaultPort == 50051

S_serverTable == <<"[", "s", "e", "r", "v", "e", "r", "]">>
S_port == <<"p", "o", "r", "t">>
S_agentId == <<"a", "g", "e", "n", "t", "I", "d">>
S_serverUrl == <<"s", "e", "r", "v", "e", "r", "U", "r", "l">>
S_eq == <<" ", "=", " ">>

\* the zero value of config.Config
ZeroConfig == [Port |-> 0, AgentId |-> <<>>, ServerUrl |-> <<>>]

\* createConfig()
CreateConfig == [Port |-> DefaultPort, AgentId |-> <<>>, ServerUrl |-> <<>>]

\* a TOML literal string
Quote(str) == <<"'">> \o str \o <<"'">>

IsQuoted(v) == Len(v) >= 2 /\ v[1] = "'" /\ v[Len(v)] = "'"

Unquote(v) == SubSeq(v, 2, Len(v) - 1)

KeyLine(key, v) == key \o S_eq \o v

MarshalWithoutServerUrl(cfg) ==
    << S_serverTable,
       KeyLine(S_port, Itoa(cfg.Port)),
       KeyLine(S_agentId, Quote(cfg.AgentId)) >>

\* toml.Marshal(config): one key per tagged field of ServerConfig
Marshal(cfg) ==
    << S_serverTable,
       KeyLine(S_port, Itoa(cfg.Port)),
       KeyLine(S_agentId, Quote(cfg.AgentId)),
       KeyLine(S_serverUrl, Quote(cfg.ServerUrl)) >>

\* a line "key = value"
IsKeyLine(line) == \E i \in 1..Len(line) : SubSeq(line, i, i + 2) = S_eq

LineKey(line) ==
    LET i == CHOOSE k \in 1..Len(line) :
                 SubSeq(line, k, k + 2) = S_eq
                 /\ \A j \in 1..(k - 1) : SubSeq(line, j, j + 2) # S_eq
    IN  SubSeq(line, 1, i - 1)

LineValue(line) == SubSeq(line, Len(LineKey(line)) + Len(S_eq) + 1, Len(line))

\* the lines of doc that set key
KeyLines(doc, key) ==
    { i \in 2..Len(doc) : IsKeyLine(doc[i]) /\ LineKey(doc[i]) = key }

\* the document is well-formed TOML for a ServerConfig: a [server] table of
\* key lines, an integer for port, strings for the other two
WellFormed(doc) ==
    \/ Len(doc) = 0
    \/ /\ doc[1] = S_serverTable
       /\ \A i \in 2..Len(doc) : IsKeyLine(doc[i])
       /\ \A i \in KeyLines(doc, S_port) : IsNumeral(LineValue(doc[i]))
       /\ \A i \in KeyLines(doc, S_agentId) \cup KeyLines(doc, S_serverUrl) :
            IsQuoted(LineValue(doc[i]))
       /\ \A key \in {S_port, S_agentId, S_serverUrl} : Cardinality(KeyLines(doc, key)) <= 1

\* toml.Unmarshal(data, &cfg): a missing key leaves the field's zero value,
\* an unknown key is ignored
Unmarshal(doc) ==
    IF ~WellFormed(doc) THEN [err |-> TRUE, cfg |-> ZeroConfig]
    ELSE LET val(key) == LineValue(doc[CHOOSE i \in KeyLines(doc, key) : TRUE])
             has(key) == KeyLines(doc, key) # {}
         IN  [ err |-> FALSE,
               cfg |-> [ Port      |-> IF has(S_port) THEN Atoi(val(S_port)) ELSE 0,
                         AgentId   |-> IF has(S_agentId) THEN Unquote(val(S_agentId)) ELSE <<>>,
                         ServerUrl |-> IF has(S_serverUrl) THEN Unquote(val(S_serverUrl)) ELSE <<>> ] ]

\* the places a config file can be: <cwd>/config.toml, ~/.cangling/config.toml
\* and a path given explicitly
Paths == {"cwd", "home", "alt"}

NoFile == <<"<", "n", "o", " ", "f", "i", "l", "e", ">">>

\* a file that is not TOML
Garbage == << <<"?", "?">> >>

\* the sample of the source's own comment: only a port
PortOnly == << S_serverTable, KeyLine(S_port, Itoa(8080)) >>

\* the fileName arguments: "" (the default) or an explicit path
FileNames == {"", "alt"}

WritePathHome(fileName) == IF fileName = "" THEN "home" ELSE fileName

\* writeConfig: if fileName == "" { fileName = path.Join(currDir, "config.toml") }
WritePath(fileName) == IF fileName = "" THEN "cwd" ELSE fileName

\* readConfig(fileName)
ReadConfig(files, path) ==
    IF files[path] = NoFile THEN [err |-> TRUE, cfg |-> ZeroConfig]
    ELSE Unmarshal(files[path])

\* GetConfig(fileName): the config it returns, its error, and the files
\* afterwards (it writes a new default config, if the write succeeds)
GetConfig(files, fileName, writeOk) ==
    IF fileName = ""
    THEN IF ~ReadConfig(files, "cwd").err
         THEN [cfg |-> ReadConfig(files, "cwd").cfg, err |-> FALSE, files |-> files]
         ELSE IF ~ReadConfig(files, "home").err
         THEN [cfg |-> ReadConfig(files, "home").cfg, err |-> FALSE, files |-> files]
         ELSE [ cfg |-> CreateConfig, err |-> FALSE,
                files |-> IF writeOk THEN [files EXCEPT !["cwd"] = Marshal(CreateConfig)]
                          ELSE files ]
    ELSE [ cfg |-> ReadConfig(files, fileName).cfg,
           err |-> ReadConfig(files, fileName).err, files |-> files ]

\* writeConfig(fileName, config): the files after a successful write
WriteConfig(files, fileName, cfg) ==
    [files EXCEPT ![WritePath(fileName)] = Marshal(cfg)]

\* sample records and sample files
AgentIds == { <<>>, <<"n", "2">> }
Urls == { <<>>, <<"h", "2">> }
Ports == { 0, 8080, DefaultPort }
ConfigRecords == [Port : Ports, AgentId : AgentIds, ServerUrl : Urls]

NoOp == [op |-> "none", file |-> "", ok |-> TRUE, rec |-> ZeroConfig, n |-> 0]

\* a client calls c.Write(fileName) on a record it holds.  A write that
\* fails is fatal (log.Fatalf): the process is gone.
ConfigWrite ==
    /\ UNCHANGED <<taskVars, streamVars, agentVars>>
    /\ cOp.ok
    /\ cOp.n < MaxOps
    /\ \E fileName \in FileNames, ok \in BOOLEAN :
         /\ fs' = IF ok THEN WriteConfig(fs, fileName, Config) ELSE fs
         /\ cOp' = [op |-> "write", file |-> fileName, ok |-> ok, rec |-> Config,
                    n |-> cOp.n + 1]
    /\ cPrev' = cOp
    /\ UNCHANGED Config

\* a client calls c.Read(fileName).  An error of GetConfig is fatal.
ConfigRead ==
    /\ UNCHANGED <<taskVars, streamVars, agentVars>>
    /\ cOp.ok
    /\ cOp.n < MaxOps
    /\ \E fileName \in FileNames, writeOk \in BOOLEAN :
         LET got == GetConfig(fs, fileName, writeOk)
         IN  /\ fs' = got.files
             /\ Config' = IF got.err THEN Config ELSE got.cfg
             /\ cOp' = [op |-> "read", file |-> fileName, ok |-> ~got.err, rec |-> got.cfg,
                        n |-> cOp.n + 1]
    /\ cPrev' = cOp

----------------------------------------------------------------------------
(* The control plane, as postJSON sees it: the POST fails (network error,  *)
(* a status other than 200/201, a body that is not JSON), or it yields an  *)
(* envelope {code, message, data}.  data, data["node"] and                 *)
(* data["node"]["id"] are described by their JSON type.                    *)

Reply(post, code, data, node, idType, id) ==
    [ post |-> post, code |-> code, message |-> <<>>, data |-> data, node |-> node,
      idType |-> idType, id |-> id ]

\* a sample message of the control plane
S_badKey == <<"b", "a", "d", " ", "k", "e", "y">>

FailedPosts == { Reply(k, 0, "null", "null", "null", <<>>) : k \in {"neterr", "badstatus", "baddecode"} }

RegisterReplies ==
    FailedPosts
    \cup { Reply("ok", 500, "null", "null", "null", <<>>),
           [Reply("ok", 500, "null", "null", "null", <<>>) EXCEPT !.message = S_badKey],
           [Reply("ok", 200, "null", "null", "null", <<>>) EXCEPT !.message = S_badKey],
           Reply("ok", 200, "string", "null", "null", <<>>),
           Reply("ok", 200, "map", "number", "null", <<>>),
           Reply("ok", 200, "map", "map", "number", <<>>) }
    \cup { Reply("ok", 200, "map", "map", "string", id) : id \in {<<>>, <<"n", "1">>, <<"n", "2">>} }

ReportReplies ==
    { Reply("neterr", 0, "null", "null", "null", <<>>),
      Reply("ok", 500, "null", "null", "null", <<>>),
      Reply("ok", 200, "null", "null", "null", <<>>) }

\* os.Hostname() and getLocalIP()
HostFacts == {"ok", "nohostname", "noip"}

RegisterErrTextGeneric(err, reply) ==
    IF err = "none" THEN <<>> ELSE <<"i", "n", "v", "a", "l", "i", "d", " ", "r", "e", "s", "p", "o", "n", "s", "e">>

\* the text of the error Register returns.  The texts that come from the
\* operating system and the HTTP client are samples; the text written
\* for a data field that is not a map is in Chinese in the source ("no data
\* returned").
RegisterErrText(err, reply) ==
    CASE err = "none" -> <<>>
      [] err = "url or token required" -> <<"u", "r", "l", " ", "o", "r", " ", "t", "o", "k", "e", "n", " ", "r", "e", "q", "u", "i", "r", "e", "d">>
      [] err = "hostname" -> <<"h", "o", "s", "t", "n", "a", "m", "e", ":", " ", "n", "o", " ", "s", "u", "c", "h", " ", "f", "i", "l", "e">>
      [] err = "localip" -> <<"n", "o", " ", "l", "o", "c", "a", "l", " ", "I", "P", " ", "f", "o", "u", "n", "d">>
      [] err = "neterr" -> <<"e", "r", "r", "o", "r", " ", "s", "e", "n", "d", "i", "n", "g", " ", "r", "e", "q", "u", "e", "s", "t", ":", " ", "t", "i", "m", "e", "o", "u", "t">>
      [] err = "badstatus" -> <<"r", "e", "c", "e", "i", "v", "e", "d", " ", "n", "o", "n", "-", "s", "u", "c", "c", "e", "s", "s", "f", "u", "l", " ", "s", "t", "a", "t", "u", "s", " ", "c", "o", "d", "e", ":", " ", "5", "0", "2", ",", " ", "b", "o", "d", "y", ":", " ">>
      [] err = "baddecode" -> <<"e", "r", "r", "o", "r", " ", "d", "e", "c", "o", "d", "i", "n", "g", " ", "r", "e", "s", "p", "o", "n", "s", "e", " ", "b", "o", "d", "y", ":", " ", "E", "O", "F">>
      [] err = "code" -> reply.message
      [] err = "data is not a map" -> <<"(", "n", "o", " ", "d", "a", "t", "a", " ", "r", "e", "t", "u", "r", "n", "e", "d", ")">>
      [] err = "node is not a map" -> <<"n", "o", "d", "e", " ", "d", "a", "t", "a", " ", "i", "s", " ", "n", "o", "t", " ", "a", " ", "m", "a", "p", "[", "s", "t", "r", "i", "n", "g", "]", "i", "n", "t", "e", "r", "f", "a", "c", "e", "{", "}">>
      [] err = "id is not a string" -> <<"n", "o", "d", "e", " ", "i", "d", " ", "i", "s", " ", "n", "o", "t", " ", "a", " ", "s", "t", "r", "i", "n", "g">>

RegisterErrNoArgCheck(url, token, host, reply) ==
    IF host = "nohostname" THEN "hostname"
    ELSE IF host = "noip" THEN "localip"
    ELSE IF reply.post # "ok" THEN reply.post
    ELSE IF reply.code # 200 THEN "code"
    ELSE IF reply.data # "map" THEN "data is not a map"
    ELSE IF reply.node # "map" THEN "node is not a map"
    ELSE IF reply.idType # "string" THEN "id is not a string"
    ELSE "none"

\* which error, if any, Register ends with
RegisterErr(url, token, host, reply) ==
    IF url # <<>> /\ token # <<>>
    THEN IF host = "nohostname" THEN "hostname"
         ELSE IF host = "noip" THEN "localip"
         ELSE IF reply.post # "ok" THEN reply.post
         ELSE IF reply.code # 200 THEN "code"
         ELSE IF reply.data # "map" THEN "data is not a map"
         ELSE IF reply.node # "map" THEN "node is not a map"
         ELSE IF reply.idType # "string" THEN "id is not a string"
         ELSE "none"
    ELSE "url or token required"

\* agent.Register(url, token, port, version): the node id, the error ("none"
\* for nil) with its text, and whether the control plane was called
Register(url, token, host, reply) ==
    LET err == RegisterErr(url, token, host, reply)
    IN  [ id   |-> IF err = "none" THEN reply.id ELSE <<>>,
          err  |-> err,
          text |-> RegisterErrText(err, reply),
          net  |-> url # <<>> /\ token # <<>> /\ host = "ok" ]

ReportAgentToServerAlwaysPosts(cfg, reply) ==
    IF reply.post # "ok" THEN [err |-> reply.post, net |-> TRUE]
    ELSE IF reply.code # 200 THEN [err |-> "code", net |-> TRUE]
    ELSE [err |-> "none", net |-> TRUE]

\* agent.ReportAgentToServer(config, version): the error ("none" for nil) and
\* whether the control plane was called
ReportAgentToServer(cfg, reply) ==
    IF cfg.ServerUrl = <<>> THEN [err |-> "not registered", net |-> FALSE]
    ELSE IF reply.post # "ok" THEN [err |-> reply.post, net |-> TRUE]
    ELSE IF reply.code # 200 THEN [err |-> "code", net |-> TRUE]
    ELSE [err |-> "none", net |-> TRUE]

----------------------------------------------------------------------------
(* The agent program (package main).  agent is the process:                *)
(*   run      which run of the program this is                             *)
(*   pc       where main is: boot (before init()), main (command chosen),  *)
(*            listen, serve, wait (blocked on <-quit), stopping, draining, *)
(*            exited, fatal (log.Fatalf)                                   *)
(*   cmd      the subcommand, "server" or "register"                       *)
(*   port     the port variable (the --port flag, 0 when not given)        *)
(*   regUrl, regToken   the --server and --token flags                     *)
(*   loaded   init() has loaded Config                                     *)
(*   lis      the TCP listener is bound                                    *)
(*   srv      the gRPC server: none, serving, draining, stopped            *)
(*   inflight the RPC calls in flight                                      *)
(*   sig      an interrupt/termination signal is in the quit channel       *)
(*   done     the done channel is closed                                   *)
(*   regErr, regNet   what the last Register returned / whether it called  *)
(*   regId, regText   the node id and the error text it returned         *)
(*   regReply  what the control plane answered, or would have             *)
(* hb is the heartbeat goroutine:                                          *)
(*   pc       none, select, report, returned, dead (the process exited)    *)
(*   tick     a tick is waiting in ticker.C                                *)
(*   failed   how many reports failed (saturating at MaxFailed)            *)
(*   lastErr, lastNet  what the last report returned / whether it called   *)
(*   lastUrl, lastId   the URL it posted to and the node id it posted      *)

NewProcess(run) ==
    [ run |-> run, pc |-> "boot", cmd |-> "none", port |-> 0, regUrl |-> <<>>,
      regToken |-> <<>>, loaded |-> FALSE, lis |-> FALSE, srv |-> "none",
      inflight |-> 0, sig |-> FALSE, done |-> FALSE, regErr |-> "none", regNet |-> FALSE,
      regId |-> <<>>, regText |-> <<>>,
      regReply |-> Reply("none", 0, "null", "null", "null", <<>>), persist |-> "none" ]

NoHb ==
    [ pc |-> "none", tick |-> FALSE, failed |-> 0, lastErr |-> "none", lastNet |-> FALSE,
      lastUrl |-> <<>>, lastId |-> <<>>, reports |-> 0 ]

NoHistory == [registered |-> FALSE, regId |-> <<>>, regUrl |-> <<>>]

\* the command lines the program is run with
CommandLines ==
    [cmd : {"server"}, port : {0, 8080, 9090}, regUrl : {<<>>}, regToken : {<<>>}]
    \cup [cmd : {"register"}, port : {0}, regUrl : {<<>>, <<"h", "1">>, <<"h", "2">>},
          regToken : {<<>>, <<"t">>}]

\* what the operating system answers about the directories: both known, the
\* current directory cannot be determined, the home directory cannot
Dirs == {"ok", "nocwd", "nohome"}

\* GetConfig(""), its log.Fatalf: the current directory cannot be determined,
\* or <cwd>/config.toml cannot be read and the home directory cannot be
\* determined
GetConfigFatal(files, dirs) ==
    \/ dirs = "nocwd"
    \/ dirs = "nohome" /\ ReadConfig(files, "cwd").err

\* GetConfig("") came to write a new default config
WritesDefault(files) == ReadConfig(files, "cwd").err /\ ReadConfig(files, "home").err

\* init(): Config.Read(""), then cobra parses the command line.  agent.persist
\* records what went wrong with the config files during startup.
Boot ==
    /\ UNCHANGED <<taskVars, streamVars, cOp, cPrev, hb, gh>>
    /\ agent.pc = "boot"
    /\ \E writeOk \in BOOLEAN, cl \in CommandLines, dirs \in Dirs :
         IF GetConfigFatal(fs, dirs)
         THEN /\ agent' = [agent EXCEPT !.pc = "fatal", !.persist = "dirs"]
              /\ UNCHANGED <<Config, fs>>
         ELSE \E got \in {GetConfig(fs, "", writeOk)} :
                /\ fs' = got.files
                /\ IF got.err
                   THEN /\ agent' = [agent EXCEPT !.pc = "fatal", !.persist = "read"]
                        /\ UNCHANGED Config
                   ELSE /\ Config' = got.cfg
                        /\ agent' = [agent EXCEPT !.pc = "main", !.loaded = TRUE,
                                                  !.cmd = cl.cmd, !.port = cl.port,
                                                  !.regUrl = cl.regUrl,
                                                  !.regToken = cl.regToken,
                                                  !.persist = IF WritesDefault(fs) /\ ~writeOk
                                                              THEN "default" ELSE "none"]

RegisterCmdStoresUrlFirst ==
    /\ UNCHANGED <<taskVars, streamVars, cOp, cPrev, hb>>
    /\ agent.pc = "main"
    /\ agent.cmd = "register"
    /\ \E host \in HostFacts, reply \in RegisterReplies, writeOk \in BOOLEAN :
         LET r == Register(agent.regUrl, agent.regToken, host, reply)
             c == [Config EXCEPT !.AgentId = r.id, !.ServerUrl = agent.regUrl]
         IN  /\ agent' = [agent EXCEPT !.pc = IF r.err = "none" /\ ~writeOk THEN "fatal"
                                              ELSE "exited",
                                       !.regErr = r.err, !.regNet = r.net, !.regId = r.id,
                                       !.regText = r.text, !.regReply = reply]
             /\ Config' = [c EXCEPT !.AgentId = IF r.err = "none" THEN r.id ELSE Config.AgentId]
             /\ fs' = IF r.err = "none" /\ writeOk THEN WriteConfig(fs, "", c) ELSE fs
             /\ gh' = IF r.err = "none" /\ writeOk
                      THEN [registered |-> TRUE, regId |-> r.id, regUrl |-> agent.regUrl]
                      ELSE gh

\* registerCmd.Run
RegisterCmd ==
    /\ UNCHANGED <<taskVars, streamVars, cOp, cPrev, hb>>
    /\ agent.pc = "main"
    /\ agent.cmd = "register"
    /\ \E host \in HostFacts, reply \in RegisterReplies, writeOk \in BOOLEAN :
         LET r == Register(agent.regUrl, agent.regToken, host, reply)
             c == [Config EXCEPT !.AgentId = r.id, !.ServerUrl = agent.regUrl]
         IN  IF r.err # "none"
             THEN /\ agent' = [agent EXCEPT !.pc = "exited", !.regErr = r.err, !.regNet = r.net,
                                            !.regId = r.id, !.regText = r.text, !.regReply = reply]
                  /\ UNCHANGED <<Config, fs, gh>>
             ELSE /\ Config' = c
                  /\ IF writeOk
                     THEN /\ fs' = WriteConfig(fs, "", c)
                          /\ agent' = [agent EXCEPT !.pc = "exited", !.regErr = "none",
                                                    !.regNet = r.net, !.regId = r.id,
                                                    !.regText = r.text, !.regReply = reply]
                          /\ gh' = [registered |-> TRUE, regId |-> r.id, regUrl |-> agent.regUrl]
                     ELSE /\ agent' = [agent EXCEPT !.pc = "fatal", !.regErr = "none",
                                                    !.regNet = r.net, !.regId = r.id,
                                                    !.regText = r.text, !.regReply = reply]
                          /\ UNCHANGED <<fs, gh>>

\* startAgent, the port: the flag overrides the stored port and is saved
StartAgentPort ==
    /\ UNCHANGED <<taskVars, streamVars, cOp, cPrev, hb, gh>>
    /\ agent.pc = "main"
    /\ agent.cmd = "server"
    /\ IF agent.port = 0
       THEN /\ agent' = [agent EXCEPT !.port = Config.Port, !.pc = "listen"]
            /\ UNCHANGED <<Config, fs>>
       ELSE /\ Config' = [Config EXCEPT !.Port = agent.port]
            /\ \E writeOk \in BOOLEAN :
                 IF writeOk
                 THEN /\ fs' = WriteConfig(fs, "", [Config EXCEPT !.Port = agent.port])
                      /\ agent' = [agent EXCEPT !.pc = "listen"]
                 ELSE /\ agent' = [agent EXCEPT !.pc = "fatal", !.persist = "port"]
                      /\ UNCHANGED fs

\* 1. Create a TCP listener
Listen ==
    /\ UNCHANGED <<taskVars, streamVars, configVars, hb, gh>>
    /\ agent.pc = "listen"
    /\ \/ agent' = [agent EXCEPT !.lis = TRUE, !.pc = "serve"]
       \/ agent' = [agent EXCEPT !.pc = "fatal"]

\* 2-4. create the gRPC server, serve in a goroutine, start the ticker and
\* the heartbeat goroutine; 5. signal.Notify
Serve ==
    /\ UNCHANGED <<taskVars, streamVars, configVars, gh>>
    /\ agent.pc = "serve"
    /\ agent' = [agent EXCEPT !.srv = "serving", !.pc = "wait"]
    /\ hb' = [NoHb EXCEPT !.pc = "select"]

\* a client's RPC call arrives at the serving gRPC server
RpcBegin ==
    /\ UNCHANGED <<taskVars, streamVars, configVars, hb, gh>>
    /\ agent.srv = "serving"
    /\ agent.inflight < MaxInflight
    /\ agent' = [agent EXCEPT !.inflight = @ + 1]

\* an RPC call in flight returns
RpcEnd ==
    /\ UNCHANGED <<taskVars, streamVars, configVars, hb, gh>>
    /\ agent.srv \in {"serving", "draining"}
    /\ agent.inflight > 0
    /\ agent' = [agent EXCEPT !.inflight = @ - 1]

\* SIGINT or SIGTERM arrives while main waits on the quit channel
Signal ==
    /\ UNCHANGED <<taskVars, streamVars, configVars, hb, gh>>
    /\ agent.pc = "wait"
    /\ ~agent.sig
    /\ agent' = [agent EXCEPT !.sig = TRUE]

\* <-quit returns; close(done)
CloseDone ==
    /\ UNCHANGED <<taskVars, streamVars, configVars, hb, gh>>
    /\ agent.pc = "wait"
    /\ agent.sig
    /\ agent' = [agent EXCEPT !.done = TRUE, !.pc = "stopping"]

\* s.GracefulStop() is called: the server stops accepting calls
GracefulStopBegin ==
    /\ UNCHANGED <<taskVars, streamVars, configVars, hb, gh>>
    /\ agent.pc = "stopping"
    /\ agent' = [agent EXCEPT !.srv = "draining", !.pc = "draining"]

GracefulStopEndHard ==
    /\ UNCHANGED <<taskVars, streamVars, configVars, gh>>
    /\ agent.pc = "draining"
    /\ agent' = [agent EXCEPT !.srv = "stopped", !.pc = "exited"]
    /\ hb' = [hb EXCEPT !.pc = IF @ = "returned" THEN @ ELSE "dead", !.tick = FALSE,
                         !.reports = 0]

\* s.GracefulStop() returns once no call is in flight; startAgent and main
\* return and the process exits, whatever the heartbeat goroutine is doing
GracefulStopEnd ==
    /\ UNCHANGED <<taskVars, streamVars, configVars, gh>>
    /\ agent.pc = "draining"
    /\ agent.inflight = 0
    /\ agent' = [agent EXCEPT !.srv = "stopped", !.pc = "exited"]
    /\ hb' = [hb EXCEPT !.pc = IF @ = "returned" THEN @ ELSE "dead", !.tick = FALSE,
                         !.reports = 0]

\* the ticker's period has passed: a tick is put in ticker.C (one slot; a
\* tick that finds it full is dropped)
Tick ==
    /\ UNCHANGED <<taskVars, streamVars, configVars, agent, gh>>
    /\ hb.pc \in {"select", "report"}
    /\ ~hb.tick
    /\ hb' = [hb EXCEPT !.tick = TRUE]

HbTakeTickSpawnsReport ==
    /\ UNCHANGED <<taskVars, streamVars, configVars, agent, gh>>
    /\ hb.pc = "select"
    /\ hb.tick
    /\ hb.reports < 2
    /\ hb' = [hb EXCEPT !.tick = FALSE, !.reports = @ + 1]

\* select: case <-ticker.C; the goroutine itself goes on to call
\* ReportAgentToServer.  hb.reports counts the reports in flight.
HbTakeTick ==
    /\ UNCHANGED <<taskVars, streamVars, configVars, agent, gh>>
    /\ hb.pc = "select"
    /\ hb.tick
    /\ hb' = [hb EXCEPT !.tick = FALSE, !.pc = "report", !.reports = @ + 1]

\* select: case <-done: return
HbDone ==
    /\ UNCHANGED <<taskVars, streamVars, configVars, agent, gh>>
    /\ hb.pc = "select"
    /\ agent.done
    /\ hb' = [hb EXCEPT !.pc = "returned"]

HbAfterReportReturnOnError(err) == IF err # "none" THEN "returned" ELSE "select"

\* the error is logged and the loop continues
HbAfterReport(err) == "select"

HbReportForgetsId ==
    /\ UNCHANGED <<taskVars, streamVars, fs, cOp, cPrev, agent, gh>>
    /\ hb.pc = "report"
    /\ \E reply \in ReportReplies :
         LET r == ReportAgentToServer(Config, reply)
         IN  /\ hb' = [hb EXCEPT !.pc = HbAfterReport(r.err),
                                 !.failed = IF r.err # "none" /\ @ < MaxFailed THEN @ + 1 ELSE @,
                                 !.lastErr = r.err, !.lastNet = r.net,
                                 !.lastUrl = IF r.net THEN Config.ServerUrl ELSE <<>>,
                                 !.lastId = IF r.net THEN Config.AgentId ELSE <<>>,
                                 !.reports = @ - 1]
             /\ Config' = IF r.err = "code" THEN [Config EXCEPT !.AgentId = <<>>] ELSE Config

\* agent.ReportAgentToServer(Config, version) returns
HbReport ==
    /\ UNCHANGED <<taskVars, streamVars, configVars, agent, gh>>
    /\ hb.pc = "report"
    /\ \E reply \in ReportReplies :
         LET r == ReportAgentToServer(Config, reply)
         IN  hb' = [hb EXCEPT !.pc = HbAfterReport(r.err),
                              !.failed = IF r.err # "none" /\ @ < MaxFailed THEN @ + 1 ELSE @,
                              !.lastErr = r.err, !.lastNet = r.net,
                              !.lastUrl = IF r.net THEN Config.ServerUrl ELSE <<>>,
                              !.lastId = IF r.net THEN Config.AgentId ELSE <<>>,
                              !.reports = @ - 1]

\* the command lines and the control plane's answers of a second process
ElsewhereCommandLines == { cl \in CommandLines : cl.regUrl = <<"h", "2">> /\ cl.regToken # <<>> }
ElsewhereReplies == { r \in RegisterReplies : r.post = "neterr" \/ r.id = <<"n", "2">> }

\* the operator runs the register command in a second process of the program
\* while this one serves: its init() loads the config, its registerCmd calls
\* Register and, on success, writes the config.  The two processes share
\* the files and nothing else.
RegisterElsewhere ==
    /\ UNCHANGED <<taskVars, streamVars, cOp, cPrev, Config, agent, hb>>
    /\ agent.pc = "wait"
    /\ \E writeOk \in BOOLEAN :
         \E got \in {GetConfig(fs, "", writeOk)} :
             /\ ~got.err
             /\ \E cl \in ElsewhereCommandLines, reply \in ElsewhereReplies :
                  \E r \in {Register(cl.regUrl, cl.regToken, "ok", reply)} :
                      IF r.err = "none" /\ writeOk
                      THEN /\ fs' = WriteConfig(got.files, "",
                                       [got.cfg EXCEPT !.AgentId = r.id,
                                                       !.ServerUrl = cl.regUrl])
                           /\ gh' = [registered |-> TRUE, regId |-> r.id,
                                     regUrl |-> cl.regUrl]
                      ELSE /\ fs' = got.files
                           /\ UNCHANGED gh

\* the program is run again; only the files are left of the earlier run
Restart ==
    /\ UNCHANGED <<taskVars, streamVars, fs, cOp, cPrev, gh>>
    /\ agent.pc \in {"exited", "fatal"}
    /\ agent.run < MaxRuns
    /\ agent' = NewProcess(agent.run + 1)
    /\ hb' = NoHb
    /\ Config' = ZeroConfig

\* no agent process
NoAgent ==
    /\ agent = [NewProcess(0) EXCEPT !.pc = "none"]
    /\ hb = NoHb
    /\ gh = NoHistory

----------------------------------------------------------------------------
(* Specifications *)

\* no unary RPC in progress
TaskIdle ==
    /\ tPc = "idle"
    /\ tOp = "none"
    /\ tReq = NoRequest
    /\ tExec = <<>>
    /\ tOut = NoOutcome
    /\ tResp = NoResponse

\* no config file anywhere, no record loaded
NoConfig ==
    /\ fs = [f \in Paths |-> NoFile]
    /\ Config = ZeroConfig
    /\ cOp = NoOp
    /\ cPrev = NoOp

InitTask == TaskIdle /\ st = NoStreams /\ NoConfig /\ NoAgent

NextTask == StartTask \/ StopTask \/ HttpStop \/ ListTasks \/ TaskReturn

\* the unary RPCs of the task controller
SpecTask == InitTask /\ [][NextTask]_vars

\* one StreamLogs call, with any request name and any finite log source
InitStream ==
    /\ TaskIdle
    /\ NoConfig
    /\ NoAgent
    /\ \E n \in Names, src \in LogSources : st = [c \in {"c1"} |-> NewCall(n, src)]

NextStream ==
    \/ \E c \in Calls : SendInit(c)
    \/ \E c \in Calls : StartCmd(c)
    \/ \E c \in Calls : Emit(c)
    \/ \E c \in Calls : ProcExit(c)
    \/ \E c \in Calls : Kill(c)
    \/ \E c \in Calls : CopyRead(c)
    \/ \E c \in Calls : CopyEOF(c)
    \/ \E c \in Calls : RunReturn(c)
    \/ \E c \in Calls : CheckCtx(c)
    \/ \E c \in Calls : SendError(c)
    \/ \E c \in Calls : Cancel(c)

SpecStream == InitStream /\ [][NextStream]_vars

\* two StreamLogs calls at the same time, for two containers whose logs differ
InitStreamPair ==
    /\ TaskIdle
    /\ NoConfig
    /\ NoAgent
    /\ st = [c \in {"c1", "c2"} |->
               IF c = "c1" THEN NewCall(<<>>, [i \in 1..(MaxLog - 1) |-> LogByte(i)])
               ELSE NewCall(<<"n">>, <<"x">>)]

SpecStreamPair == InitStreamPair /\ [][NextStream]_vars

\* a client of the config store, over sample files
InitConfig ==
    /\ TaskIdle
    /\ st = NoStreams
    /\ NoAgent
    /\ \E cwd \in {NoFile, Garbage, PortOnly,
                     Marshal([Port |-> 8080, AgentId |-> <<"n", "1">>, ServerUrl |-> <<"h", "1">>])},
          home \in {NoFile, Garbage, PortOnly}, alt \in {NoFile, Garbage} :
         fs = [f \in Paths |-> IF f = "cwd" THEN cwd ELSE IF f = "home" THEN home ELSE alt]
    /\ Config \in ConfigRecords
    /\ cOp = NoOp
    /\ cPrev = NoOp

NextConfig == ConfigWrite \/ ConfigRead

SpecConfig == InitConfig /\ [][NextConfig]_vars

\* the agent program, run on a node that has never been registered
InitAgent ==
    /\ TaskIdle
    /\ st = NoStreams
    /\ \E cwd \in {NoFile, PortOnly}, home \in {NoFile, Garbage} :
         fs = [f \in Paths |-> IF f = "cwd" THEN cwd ELSE IF f = "home" THEN home ELSE NoFile]
    /\ Config = ZeroConfig
    /\ cOp = NoOp
    /\ cPrev = NoOp
    /\ agent = NewProcess(1)
    /\ hb = NoHb
    /\ gh = NoHistory

NextAgent ==
    \/ Boot \/ RegisterCmd \/ StartAgentPort \/ Listen \/ Serve
    \/ RpcBegin \/ RpcEnd \/ Signal \/ CloseDone \/ GracefulStopBegin \/ GracefulStopEnd
    \/ Tick \/ HbTakeTick \/ HbDone \/ HbReport \/ Restart \/ RegisterElsewhere

SpecAgent == InitAgent /\ [][NextAgent]_vars

\* The main goroutine is scheduled: once the signal is in the quit channel it
\* closes done, calls GracefulStop, and GracefulStop returns when no call is
\* in flight.  Every call in flight eventually returns.
SpecAgentFair ==
    /\ InitAgent
    /\ [][NextAgent]_vars
    /\ WF_vars(CloseDone)
    /\ WF_vars(GracefulStopBegin)
    /\ WF_vars(GracefulStopEnd)
    /\ WF_vars(RpcEnd)

----------------------------------------------------------------------------
(* The argument vector as the runtime's command line reads it: a flag that *)
(* takes a value consumes the next element, whatever it looks like.        *)

ValueFlags == {S_name, S_e, S_v, S_memory, S_gpus, S_label}
BoolFlags == {S_rm, S_d}

RECURSIVE ParseArgs(_)
ParseArgs(a) ==
    IF Len(a) = 0 THEN <<>>
    ELSE IF a[1] \in ValueFlags /\ Len(a) >= 2
         THEN <<[flag |-> a[1], val |-> a[2]]>> \o ParseArgs(SubSeq(a, 3, Len(a)))
    ELSE IF a[1] \in BoolFlags
         THEN <<[flag |-> a[1], val |-> <<>>]>> \o ParseArgs(Tail(a))
    ELSE <<[flag |-> <<>>, val |-> a[1]]>> \o ParseArgs(Tail(a))

\* the items of a parsed vector that satisfy P, in order
ItemsWith(items, P(_)) == SelectSeq(items, P)

IsNameFlag(it) == it.flag = S_name
IsEnvFlag(it) == it.flag = S_e
IsVolumeFlag(it) == it.flag = S_v
IsMemoryFlag(it) == it.flag = S_memory
IsGpuFlag(it) == it.flag = S_gpus
IsManagedByLabel(it) == it.flag = S_label /\ it.val = S_managedBy
IsJobIdLabel(it) == it.flag = S_label /\ HasPrefix(it.val, S_jobId)
IsPositional(it) == it.flag = <<>>

\* the position of an item in the order the code appends in:
\* run, remove-on-exit, detached, name, env, volume, memory, gpus, labels, image
RankInCode(it, first) ==
    CASE first /\ IsPositional(it) /\ it.val = S_run -> 0
      [] it.flag = S_rm       -> 1
      [] it.flag = S_d        -> 2
      [] IsNameFlag(it)       -> 3
      [] IsEnvFlag(it)        -> 4
      [] IsVolumeFlag(it)     -> 5
      [] IsMemoryFlag(it)     -> 6
      [] IsGpuFlag(it)        -> 7
      [] IsManagedByLabel(it) -> 8
      [] IsJobIdLabel(it)     -> 9
      [] OTHER                -> 10

\* the same with the base flags in the order run, detached, remove-on-exit
RankAsClaimed(it, first) ==
    CASE it.flag = S_d  -> 1
      [] it.flag = S_rm -> 2
      [] OTHER          -> RankInCode(it, first)

\* a StartTask call that reached the runtime
StartLaunched == tOp = "StartTask" /\ tReq.Image # <<>> /\ Len(tExec) = 1

\* what the order claims share: one item of each base flag, the env and
\* volume values in input order, the image last
OrderFrame(items) ==
    /\ Len(tExec[1]) > 0 /\ tExec[1][Len(tExec[1])] = tReq.Image
    /\ Len(items) >= 4
    /\ {i \in 1..Len(items) : items[i].flag = S_rm} # {}
    /\ {i \in 1..Len(items) : items[i].flag = S_d} # {}
    /\ Cardinality({i \in 1..Len(items) : items[i].flag \in BoolFlags}) = 2
    /\ LET envs == ItemsWith(items, IsEnvFlag)
           vols == ItemsWith(items, IsVolumeFlag)
       IN  /\ [i \in 1..Len(envs) |-> envs[i].val] = tReq.Envs
           /\ [i \in 1..Len(vols) |-> vols[i].val] = tReq.Volumes

----------------------------------------------------------------------------
(* Claims about StartTask and StopTask *)

\* C1: a StartTask request with an empty image, whatever its other fields,
\* returns InvalidArgument and launches no runtime subprocess.
C1_EmptyImageRejected ==
    (tOp = "StartTask" /\ tReq.Image = <<>>)
        => (tResp.code = "InvalidArgument" /\ tExec = <<>>)

C1_Witness ==
    /\ tOp = "StartTask" /\ tReq.Image = <<>>
    /\ tReq.Name # <<>> /\ tReq.MemoryMb > 0 /\ Len(tReq.Envs) = MaxList
    /\ tResp.code = "InvalidArgument"

\* C2: a stop whose subprocess fails with "No such container" in its error
\* text is answered with a success message that contains the target name
\* (the request's name, or agent-test when it is empty), never with an error.
C2_StopAbsentIsSuccess ==
    (/\ tOp \in {"StopTask", "HttpStop"}
     /\ tOut.err = "exit"
     /\ Contains(tOut.stderr, S_NoSuchContainer))
        => /\ tResp.code = "OK"
           /\ Contains(tResp.message,
                       IF tReq.Name = <<>> THEN S_agentTest ELSE tReq.Name)
           /\ tExec = << <<S_stop, IF tReq.Name = <<>> THEN S_agentTest ELSE tReq.Name>> >>

C2_Witness ==
    /\ tOp = "StopTask" /\ tReq.Name = <<>> /\ tOut.err = "exit"
    /\ Contains(tOut.stderr, S_NoSuchContainer) /\ tOut.stderr # S_NoSuchContainer
    /\ tResp.code = "OK" /\ Contains(tResp.message, S_agentTest)

\* C3 as stated: the vector is ordered run, detached, remove-on-exit, name,
\* env entries in input order, volume entries in input order, memory, GPU,
\* managed-by label, job-id label, image.
C3_OrderAsClaimed ==
    StartLaunched =>
        LET items == ParseArgs(tExec[1])
        IN  /\ OrderFrame(items)
            /\ \A i, j \in 1..Len(items) :
                 i < j => RankAsClaimed(items[i], i = 1) <= RankAsClaimed(items[j], j = 1)
            /\ RankAsClaimed(items[1], TRUE) = 0

\* C3 (amended): the vector is ordered run, remove-on-exit, detached, name,
\* env entries in input order, volume entries in input order, memory, GPU,
\* managed-by label, job-id label, and the image is its last element.
C3_ArgOrder ==
    StartLaunched =>
        LET items == ParseArgs(tExec[1])
        IN  /\ OrderFrame(items)
            /\ \A i, j \in 1..Len(items) :
                 i < j => RankInCode(items[i], i = 1) <= RankInCode(items[j], j = 1)
            /\ RankInCode(items[1], TRUE) = 0
            /\ \A i \in 1..Len(items) :
                 RankInCode(items[i], i = 1) = 10 <=> i = Len(items)

C3_Witness ==
    /\ StartLaunched
    /\ tReq.Name # <<>> /\ tReq.Id # <<>> /\ tReq.MemoryMb > 0
    /\ Len(tReq.Envs) = MaxList /\ tReq.Envs[1] # tReq.Envs[2]
    /\ Len(tReq.Volumes) = MaxList /\ Len(tReq.Gpus) = MaxList

\* C4: each optional flag is present exactly when its field is set: name iff
\* Name is non-empty, memory "<N>m" iff MemoryMb > 0, the GPU flag listing the
\* ids joined by commas in input order iff there is a GPU id, the job-id
\* label iff Id is non-empty; an image-only request ends in the managed-by
\* label and the image; on success containerId is stdout without its
\* surrounding whitespace.
C4_OptionalFlags ==
    /\ StartLaunched =>
        LET items == ParseArgs(tExec[1])
            names == ItemsWith(items, IsNameFlag)
            mems  == ItemsWith(items, IsMemoryFlag)
            gpus  == ItemsWith(items, IsGpuFlag)
            jobs  == ItemsWith(items, IsJobIdLabel)
            n     == Len(tExec[1])
        IN  /\ Len(names) = (IF tReq.Name # <<>> THEN 1 ELSE 0)
            /\ \A i \in 1..Len(names) : names[i].val = tReq.Name
            /\ Len(mems) = (IF tReq.MemoryMb > 0 THEN 1 ELSE 0)
            /\ \A i \in 1..Len(mems) :
                 LET v == mems[i].val
                 IN  /\ Len(v) >= 2 /\ v[Len(v)] = "m"
                     /\ IsDigits(SubSeq(v, 1, Len(v) - 1))
                     /\ NatVal(SubSeq(v, 1, Len(v) - 1)) = tReq.MemoryMb
            /\ Len(gpus) = (IF Len(tReq.Gpus) > 0 THEN 1 ELSE 0)
            /\ \A i \in 1..Len(gpus) :
                 /\ HasPrefix(gpus[i].val, S_device)
                 /\ LET ids == Split(SubSeq(gpus[i].val, Len(S_device) + 1, Len(gpus[i].val)), ",")
                    IN  /\ \A k \in 1..Len(ids) : IsNumeral(ids[k])
                        /\ [k \in 1..Len(ids) |-> Atoi(ids[k])] = tReq.Gpus
            /\ Len(jobs) = (IF tReq.Id # <<>> THEN 1 ELSE 0)
            /\ \A i \in 1..Len(jobs) : jobs[i].val = S_jobId \o tReq.Id
            /\ Len(ItemsWith(items, IsManagedByLabel)) = 1
            /\ ( /\ tReq.Name = <<>> /\ tReq.Id = <<>> /\ tReq.Envs = <<>>
                 /\ tReq.Volumes = <<>> /\ tReq.MemoryMb = 0 /\ tReq.Gpus = <<>> )
               => SubSeq(tExec[1], n - 2, n) = <<S_label, S_managedBy, tReq.Image>>
    /\ (tOp = "StartTask" /\ tResp.code = "OK") =>
        \E i \in 0..Len(tOut.stdout), j \in 0..Len(tOut.stdout) :
            /\ i + j <= Len(tOut.stdout)
            /\ tResp.containerId = SubSeq(tOut.stdout, i + 1, Len(tOut.stdout) - j)
            /\ \A k \in 1..i : IsSpace(tOut.stdout[k])
            /\ \A k \in (Len(tOut.stdout) - j + 1)..Len(tOut.stdout) : IsSpace(tOut.stdout[k])
            /\ Len(tResp.containerId) > 0 =>
                 /\ ~IsSpace(tResp.containerId[1])
                 /\ ~IsSpace(tResp.containerId[Len(tResp.containerId)])

C4_Witness ==
    /\ StartLaunched /\ tResp.code = "OK"
    /\ tReq.MemoryMb = 512 /\ tReq.Gpus = <<0, 1>> /\ tReq.Name = <<>> /\ tReq.Id # <<>>
    /\ \E it \in {ParseArgs(tExec[1])[i] : i \in 1..Len(ParseArgs(tExec[1]))} :
         it.flag = S_memory /\ it.val = <<"5", "1", "2", "m">>
    /\ \E it \in {ParseArgs(tExec[1])[i] : i \in 1..Len(ParseArgs(tExec[1]))} :
         it.flag = S_gpus /\ it.val = S_device \o <<"0", ",", "1">>
    /\ Len(tOut.stdout) > Len(tResp.containerId) + 1
    /\ tResp.containerId = <<"a", "b">>

----------------------------------------------------------------------------
(* Claims about StreamLogs *)

IsLogChunk(ch) == ch.kind = "log"

\* the bytes a client has received in the chunks of sequence chunks
Received(call, chunks) ==
    Flatten([i \in 1..Len(chunks) |-> ChunkBytes(call, chunks[i])])

\* the byte stream the subprocess has emitted on standard output
Emitted(call) == SubSeq(call.src, 1, call.emitted)

IsPrefix(s, t) == Len(s) <= Len(t) /\ SubSeq(t, 1, Len(s)) = s

\* C5 as stated: the bytes of all the chunks delivered on the stream are
\* exactly the bytes the subprocess emitted.
C5_AllChunksAreTheLog ==
    \A c \in Calls :
        (st[c].pc = "done" /\ st[c].result = "OK" /\ ~st[c].ctxDone)
            => Received(st[c], st[c].sent) = Emitted(st[c])

\* C5 (amended): the stream starts with the synthetic stream-start chunk; the
\* log chunks that follow it never hold anything but a prefix of what the
\* subprocess emitted, in order; and when a call that was not cancelled
\* returns, they hold exactly the emitted byte stream (a final error chunk,
\* if the subprocess failed, comes after them).
C5_LogChunksAreTheLog ==
    \A c \in Calls :
        LET logs == SelectSeq(st[c].sent, IsLogChunk)
        IN  /\ IsPrefix(Received(st[c], logs), Emitted(st[c]))
            /\ Len(st[c].sent) > 0 =>
                 /\ st[c].sent[1].kind = "init"
                 /\ Received(st[c], <<st[c].sent[1]>>) = InitMsg(st[c])
            /\ \A i \in 2..Len(st[c].sent) :
                 \/ st[c].sent[i].kind = "log"
                 \/ st[c].sent[i].kind = "error" /\ i = Len(st[c].sent)
            /\ (st[c].pc = "done" /\ ~st[c].ctxDone)
                 => Received(st[c], logs) = Emitted(st[c])

C5_Witness ==
    \E c \in Calls :
        /\ st[c].pc = "done" /\ st[c].result = "OK" /\ ~st[c].ctxDone
        /\ st[c].emitted = MaxLog /\ MaxLog >= 3
        /\ Len(st[c].sent) = 3
        /\ Len(st[c].sent[2].data) + Len(st[c].sent[3].data) = MaxLog

\* C6: when the cancellation signal fires at any point during a StreamLogs
\* call, the subprocess is terminated and the call returns no error.
C6_CancelReturnsNoError ==
    \A c \in Calls :
        (st[c].pc = "done" /\ st[c].ctxDone)
            => (st[c].result = "OK" /\ st[c].proc # "running")

----------------------------------------------------------------------------
(* Claims about the config store *)

\* C10: saving a record and then loading with the same path argument gives
\* back a record equal to it in port, agentId and serverUrl.
C10_SaveLoadRoundTrip ==
    (/\ cOp.op = "read" /\ cPrev.op = "write" /\ cPrev.ok
     /\ cOp.file = cPrev.file)
        => /\ cOp.ok
           /\ Config.Port = cPrev.rec.Port
           /\ Config.AgentId = cPrev.rec.AgentId
           /\ Config.ServerUrl = cPrev.rec.ServerUrl

C10_Witness ==
    /\ cOp.op = "read" /\ cPrev.op = "write" /\ cPrev.ok
    /\ cOp.file = "" /\ cPrev.file = ""
    /\ fs["home"] # NoFile /\ fs["home"] # fs["cwd"]
    /\ Config.Port = DefaultPort /\ Config.AgentId = <<"n", "2">>
    /\ Config.ServerUrl = <<"h", "2">>

----------------------------------------------------------------------------
(* The agent process: phases and claims *)

\* the phase of the agent process, from where main is
PhaseOf(a) ==
    CASE a.pc \in {"boot", "main", "listen", "serve"} -> "Init"
      [] a.pc = "wait" -> "Serving"
      [] a.pc \in {"stopping", "draining"} -> "ShuttingDown"
      [] a.pc = "exited" -> "Stopped"
      [] OTHER -> "Failed"

\* the step is taken by one process running the server command
ServerStep == agent.cmd # "register" /\ agent'.cmd # "register" /\ agent'.run = agent.run

\* what a load of the default config file would return now
Persisted == GetConfig(fs, "", TRUE)

\* C7: a heartbeat report that fails (the POST fails, the code is not 200,
\* or the server URL is unset) never stops the scheduler: the heartbeat
\* goroutine returns only once shutdown has closed done; a report that ends,
\* failed or not, puts the goroutine back at its select; and there, after
\* any number of failed reports, a waiting tick can start the next report.
C7_FailedTickKeepsScheduler ==
    /\ [](hb.pc = "returned" => agent.done)
    /\ [](agent.pc = "wait" => hb.pc \in {"select", "report"})
    /\ [][(hb.pc = "report" /\ hb'.pc # "report" /\ agent' = agent) => hb'.pc = "select"]_vars
    /\ []((hb.pc = "select" /\ hb.tick /\ hb.failed > 0) => ENABLED HbTakeTick)

\* a report attempt is under way after two failed ones, the last of them
\* refused by the control plane, and shutdown has not begun
C7_Witness ==
    /\ hb.pc = "report"
    /\ hb.failed >= 2
    /\ hb.lastErr = "code"
    /\ ~agent.done

\* C8: agentId, in memory and on disk, is empty exactly until a successful
\* registration (empty in every state before the first one, non-empty in
\* every state after one), and once non-empty it changes during a process's
\* life only by a registration.
C8_AgentIdEmptyUntilRegistered ==
    /\ []((agent.loaded /\ agent.pc # "fatal") => ((Config.AgentId = <<>>) <=> ~gh.registered))
    /\ [](~Persisted.err => ((Persisted.cfg.AgentId = <<>>) <=> ~gh.registered))
    /\ [][(agent'.run = agent.run /\ Config.AgentId # <<>> /\ Config'.AgentId # Config.AgentId)
            => (agent.pc = "main" /\ agent.cmd = "register")]_vars

\* The transitions of C9: the agent process moves only Init -> Serving ->
\* ShuttingDown -> Stopped: Serving is entered only with the config loaded
\* and the listener bound, ShuttingDown only from Serving on a signal,
\* Stopped only from ShuttingDown and never left.
ServerTransitions ==
    [][(ServerStep /\ PhaseOf(agent') # PhaseOf(agent))
         => \/ /\ PhaseOf(agent) = "Init"
               /\ PhaseOf(agent') = "Serving"
               /\ agent'.loaded
               /\ agent'.lis
            \/ /\ PhaseOf(agent) = "Serving"
               /\ PhaseOf(agent') = "ShuttingDown"
               /\ agent.sig
            \/ /\ PhaseOf(agent) = "ShuttingDown"
               /\ PhaseOf(agent') = "Stopped"]_vars

\* the heartbeat scheduler is stopped: done is closed and no report is
\* under way
HeartbeatStopped == agent.done /\ hb.pc # "report"

\* C9: the agent process follows Init -> Serving -> ShuttingDown -> Stopped
\* and no other transitions, and within ShuttingDown the heartbeat scheduler
\* is stopped before the graceful drain of the RPC server begins, so that it
\* is stopped whenever the server drains.
C9_StateMachine ==
    /\ [](agent.srv = "draining" => HeartbeatStopped)
    /\ ServerTransitions

----------------------------------------------------------------------------
(* The config store: loading without a file *)

\* the step is a call of Config.Read with the default path while neither
\* <cwd>/config.toml nor ~/.cangling/config.toml exists
LoadsWithoutFile ==
    /\ cOp'.op = "read"
    /\ cOp'.n = cOp.n + 1
    /\ cOp'.file = ""
    /\ fs["cwd"] = NoFile
    /\ fs["home"] = NoFile

\* C11: a load with no explicit path, when neither the current-directory nor
\* the home-directory config file exists, returns the default record (port
\* 50051, empty agentId, empty serverUrl), and once it has returned that
\* record is persisted at the current-directory config path.
C11_DefaultIsPersisted ==
    [][LoadsWithoutFile
         => /\ cOp'.ok
            /\ cOp'.rec = [Port |-> 50051, AgentId |-> <<>>, ServerUrl |-> <<>>]
            /\ Config' = cOp'.rec
            /\ fs'["cwd"] # NoFile
            /\ ~ReadConfig(fs', "cwd").err
            /\ ReadConfig(fs', "cwd").cfg = cOp'.rec]_vars

----------------------------------------------------------------------------
(* Registration *)

\* the register command has run Register and returned
Registered == agent.cmd = "register" /\ agent.pc \in {"exited", "fatal"}

\* C12: Register called with an empty url or an empty token fails at once
\* with the argument error "url or token required", whatever the host and
\* the control plane would have answered; it makes no network call and
\* returns no node id.
C12_EmptyUrlOrTokenFails ==
    (Registered /\ (agent.regUrl = <<>> \/ agent.regToken = <<>>))
        => /\ agent.regErr = "url or token required"
           /\ agent.regText = RegisterErrText("url or token required", Reply("ok", 0, "null", "null", "null", <<>>))
           /\ ~agent.regNet
           /\ agent.regId = <<>>
           /\ agent.pc = "exited"

\* the register command was given a url but no token, and has failed
C12_Witness ==
    /\ Registered
    /\ agent.regUrl # <<>>
    /\ agent.regToken = <<>>
    /\ agent.regErr = "url or token required"

----------------------------------------------------------------------------
(* StreamLogs: the announcement and the error chunk *)

\* C13: in every StreamLogs call the first chunk sent is the stream-start
\* announcement for the call's target, and it is sent before the runtime
\* subprocess is launched: a launched subprocess, and so every chunk of its
\* bytes, finds the announcement already sent as the first chunk.
C13_AnnouncementFirst ==
    \A c \in Calls :
        /\ st[c].sent # <<>>
             => /\ st[c].sent[1].kind = "init"
                /\ st[c].sent[1].data =
                     S_initPre \o (IF st[c].name = <<>> THEN S_agentTest ELSE st[c].name)
                               \o S_initPost
        /\ st[c].proc # "none" => st[c].sent # <<>>
        /\ \A i \in 1..Len(st[c].sent) : st[c].sent[i].kind = "log" => i > 1

\* subprocess bytes have been delivered, after the announcement
C13_Witness ==
    \E c \in Calls :
        /\ Len(st[c].sent) >= 2
        /\ st[c].sent[1].kind = "init"
        /\ st[c].sent[2].kind = "log"
        /\ st[c].proc = "running"

\* the call is over, its subprocess exited with a failure, and the call's
\* cancellation signal never fired
FailedUncancelled(call) == call.pc = "done" /\ call.proc = "exit1" /\ ~call.ctxDone

\* C14: when the StreamLogs subprocess exits with a failure and the call's
\* cancellation signal has not fired, the last chunk sent is the error
\* chunk, which carries the failure and the captured stderr, if any; it is
\* the only error chunk, so no log chunk follows it; and the call returns
\* an Internal error.
C14_ErrorChunkIsLast ==
    \A c \in Calls :
        FailedUncancelled(st[c])
            => LET sent == st[c].sent
                   last == sent[Len(sent)]
               IN  /\ st[c].result = "Internal"
                   /\ Len(sent) >= 2
                   /\ last.kind = "error"
                   /\ HasPrefix(last.data, S_logErr)
                   /\ Contains(last.data, RunErrText("exit"))
                   /\ Contains(last.data, st[c].stderr)
                   /\ st[c].stderr # <<>> => Contains(last.data, S_logStderr \o st[c].stderr)
                   /\ \A i \in 1..(Len(sent) - 1) : sent[i].kind # "error"

\* a subprocess that had printed part of its log failed with a complaint on
\* stderr, and the call has returned
C14_Witness ==
    \E c \in Calls :
        /\ FailedUncancelled(st[c])
        /\ st[c].stderr # <<>>
        /\ Len(st[c].sent) >= 3
        /\ st[c].sent[2].kind = "log"

\* the errors of the three extraction steps
ShapeErrs == {"data is not a map", "node is not a map", "id is not a string"}

\* C15: Register returns a node id without error only when the envelope has
\* code 200, data is a map, its node entry is a map and that map's id entry
\* is a string; a code other than 200 returns an error whose text is the
\* envelope's message; a failed extraction step (data not a map, node not a
\* map, id not a string) returns the error of that step, and the three
\* differ from each other; with any error the node id returned is empty.
C15_RegisterEnvelope ==
    LET r == agent.regReply
    IN  Registered =>
          /\ agent.regErr = "none"
               => /\ agent.regNet
                  /\ r.post = "ok"
                  /\ r.code = 200
                  /\ r.data = "map"
                  /\ r.node = "map"
                  /\ r.idType = "string"
                  /\ agent.regId = r.id
          /\ (agent.regNet /\ r.post = "ok" /\ r.code # 200)
               => /\ agent.regErr # "none"
                  /\ agent.regText = r.message
          /\ (agent.regNet /\ r.post = "ok" /\ r.code = 200)
               => /\ r.data # "map" => agent.regErr = "data is not a map"
                  /\ (r.data = "map" /\ r.node # "map") => agent.regErr = "node is not a map"
                  /\ (r.data = "map" /\ r.node = "map" /\ r.idType # "string")
                       => agent.regErr = "id is not a string"
          /\ agent.regErr \in ShapeErrs
               => /\ agent.regText # <<>>
                  /\ \A e \in ShapeErrs \ {agent.regErr} :
                       agent.regText # RegisterErrText(e, r)
          /\ agent.regErr # "none" => agent.regId = <<>>

\* the control plane refused the registration with code 500 and a message
C15_Witness ==
    /\ Registered
    /\ agent.regNet
    /\ agent.regReply.code = 500
    /\ agent.regReply.message # <<>>
    /\ agent.regText = agent.regReply.message

----------------------------------------------------------------------------
(* The heartbeat's reports *)

\* the step is the return of a heartbeat report
ReportReturns == hb.pc = "report" /\ hb'.pc # "report" /\ agent' = agent

\* C16: a heartbeat report made while the record's serverUrl is empty
\* returns a failure at once, without a network call.
C16_NoUrlNoCall ==
    [][(ReportReturns /\ Config.ServerUrl = <<>>)
         => /\ hb'.lastErr = "not registered"
            /\ ~hb'.lastNet]_vars

\* a report has failed on an agent that has no server URL
C16_Witness ==
    /\ hb.pc = "select"
    /\ Config.ServerUrl = <<>>
    /\ hb.lastErr = "not registered"
    /\ ~hb.lastNet
    /\ hb.failed >= 1

\* C17: once a successful registration has mutated and persisted the
\* record, the heartbeat's subsequent reports go to that registration's
\* serverUrl with that registration's agentId: each report that returns
\* has posted the latest registration's values, not earlier ones.
C17_HeartbeatUsesRegistration ==
    [][(ReportReturns /\ gh.registered)
         => /\ hb'.lastNet
            /\ hb'.lastUrl = gh.regUrl
            /\ hb'.lastId = gh.regId]_vars

----------------------------------------------------------------------------
(* ListTasks *)

\* C18: List returns an error if and only if the runtime subprocess cannot
\* be started; when the subprocess runs and exits non-zero with output, List
\* returns that combined output verbatim as its result, not an error.
C18_ListErrorOnlyOnLaunchFailure ==
    (tOp = "ListTasks" /\ tPc = "done")
        => /\ (tResp.code # "OK") <=> (tOut.err = "launch")
           /\ tOut.err = "exit"
                => /\ tResp.code = "OK"
                   /\ tResp.message = tOut.stdout \o tOut.stderr

----------------------------------------------------------------------------
(* The registration path *)

\* the step is the register command calling Register and ending
RegisterStep == agent.pc = "main" /\ agent.cmd = "register" /\ agent'.pc # "main"

\* C19: on the registration path the record's agentId and serverUrl change,
\* and the config is written, only if Register returned without error.  A
\* failed registration (argument error, no host name or address, network
\* error, code other than 200, response shape mismatch) leaves the record
\* in memory and the files as they were.  A successful one sets agentId to
\* the returned id and serverUrl to the url used, both before the write,
\* and when the write succeeds the file holds that record.
C19_RegistrationFrame ==
    [][RegisterStep
         => /\ agent'.regErr # "none"
                 => /\ Config' = Config
                    /\ fs' = fs
                    /\ gh' = gh
                    /\ agent'.pc = "exited"
            /\ agent'.regErr = "none"
                 => /\ Config' = [Port |-> Config.Port, AgentId |-> agent'.regId,
                                  ServerUrl |-> agent.regUrl]
                    /\ agent'.pc = "exited"
                         => /\ ~ReadConfig(fs', "cwd").err
                            /\ ReadConfig(fs', "cwd").cfg = Config'
                            /\ \A f \in Paths \ {"cwd"} : fs'[f] = fs[f]
                    /\ agent'.pc # "exited" => fs' = fs]_vars

\* a registration has succeeded and its record is in memory and on disk
C19_Witness ==
    /\ Registered
    /\ agent.pc = "exited"
    /\ agent.regErr = "none"
    /\ agent.regId # <<>>
    /\ Config.AgentId = agent.regId
    /\ Config.ServerUrl = agent.regUrl
    /\ ReadConfig(fs, "cwd").cfg = Config

----------------------------------------------------------------------------
(* The config store: the search for a config file *)

\* the sources Load consults for a path argument, in the order of the claim
SearchOrder(fileName) ==
    IF fileName = "" THEN <<"cwd", "home">> ELSE <<fileName, "cwd", "home">>

\* the record of the first source in the order that can be read, or the
\* synthesized default when none can
FirstReadable(files, order) ==
    IF \E i \in 1..Len(order) : ~ReadConfig(files, order[i]).err
    THEN ReadConfig(files, order[CHOOSE i \in 1..Len(order) :
                                  /\ ~ReadConfig(files, order[i]).err
                                  /\ \A j \in 1..(i - 1) : ReadConfig(files, order[j]).err]).cfg
    ELSE [Port |-> 50051, AgentId |-> <<>>, ServerUrl |-> <<>>]

\* the step is a call of Config.Read
LoadStep == cOp'.op = "read" /\ cOp'.n = cOp.n + 1

\* C20: Load searches explicit path, current-directory file, home-directory
\* file, synthesized default, in this order: it returns the record of the
\* first source that can be read, so a later source is consulted only when
\* every earlier one could not be read, and an explicit path that cannot be
\* read makes Load fall back to the next source instead of failing.
C20_FallbackSearch ==
    [][LoadStep
         => /\ cOp'.ok
            /\ cOp'.rec = FirstReadable(fs, SearchOrder(cOp'.file))
            /\ Config' = cOp'.rec]_vars

----------------------------------------------------------------------------
(* Startup of the server *)

\* the step is startAgent settling the port
PortStep == agent.pc = "main" /\ agent.cmd = "server" /\ agent'.pc # "main"

\* the files hold exactly the record in memory at <cwd>/config.toml
PersistedAtCwd(files, cfg) ==
    /\ files["cwd"] # NoFile
    /\ ~ReadConfig(files, "cwd").err
    /\ ReadConfig(files, "cwd").cfg = cfg

\* C21: at startup the config record is written only if a port override is
\* given and differs from the stored port; then the record's port becomes
\* the override and is persisted before the listener is bound; in every
\* other case (no override, or an override equal to the stored port) the
\* stored port is used for listening and no config write occurs: the step
\* cannot fail on a write and leaves the files as they were.
C21_WriteOnlyOnPortChange ==
    [][PortStep
         => IF agent.port # 0 /\ agent.port # Config.Port
            THEN /\ Config' = [Config EXCEPT !.Port = agent.port]
                 /\ ~agent'.lis
                 /\ agent'.pc = "listen" => PersistedAtCwd(fs', Config')
            ELSE /\ Config' = Config
                 /\ fs' = fs
                 /\ agent'.pc = "listen"
                 /\ agent'.port = Config.Port]_vars

\* the listener is bound, the RPC server or the heartbeat scheduler started
Started == agent.lis \/ agent.srv # "none" \/ hb.pc # "none"

\* C22: a persistence failure at startup is fatal: when the config cannot be
\* read or persisted while it is loaded, or the write of a port override
\* fails, the process stops and never binds the listener, starts the RPC
\* server or starts the heartbeat scheduler.
C22_PersistenceFailureIsFatal == agent.persist # "none" => ~Started

----------------------------------------------------------------------------
(* Shutdown *)

\* the step starts a heartbeat report
ReportStarts == hb.pc # "report" /\ hb'.pc = "report"

\* C23: once shutdown has signalled the heartbeat scheduler to stop (done is
\* closed), no heartbeat report is started afterwards, even when a timer tick
\* is pending at the moment of the stop signal.
C23_NoReportAfterStop == [][agent.done => ~ReportStarts]_vars

\* the step accepts a new RPC call
RpcAccepted == agent'.run = agent.run /\ agent'.inflight > agent.inflight

\* the signal has been received, this run
SignalReceived == agent.pc = "wait" /\ agent.sig

\* the process is in Stopped
Stopped == agent.srv = "stopped"

----------------------------------------------------------------------------
(* The config record and the heartbeat loop *)

\* the step is one of this run of the process and writes the config record
RecordWritten == agent'.run = agent.run /\ Config' # Config

\* C25: within one process run the config record is never written while the
\* heartbeat loop may be reading it: every write to the record (the load, the
\* startup port override, the registration) happens before the heartbeat
\* scheduler is started or in a run that never starts it.
C25_NoWriteWhileHeartbeatReads ==
    /\ [][RecordWritten => hb.pc = "none" /\ hb'.pc = "none"]_vars
    /\ [][RecordWritten => agent.pc \in {"boot", "main"}]_vars
    /\ [](agent.cmd = "register" => hb.pc = "none")

\* a heartbeat report reads the record after the port override was written
\* to it in the same run
C25_Witness ==
    /\ hb.pc = "report"
    /\ agent.cmd = "server"
    /\ agent.port = 9090
    /\ Config.Port = 9090

----------------------------------------------------------------------------
(* The log writer *)

\* the log chunks sent on the stream of a call
LogChunks(call) == SelectSeq(call.sent, IsLogChunk)

\* the bytes the copy loop had read when it handed the i-th log chunk's bytes
\* to Write: those of the source that follow the earlier log chunks
BytesGiven(call, i) ==
    LET logs == LogChunks(call)
        off == Len(Flatten([k \in 1..(i - 1) |-> logs[k].data]))
    IN  SubSeq(call.src, off + 1, off + Len(logs[i].data))

\* the step is a call of LogStreamWriter.Write by the copy loop of call c
WriteStep(c) == st'[c].read > st[c].read

\* C26: every chunk sent by the log writer carries its own copy of the bytes
\* read: whatever the source buffer is reused for afterwards, every chunk
\* already sent still holds the bytes it was sent with.  A write that
\* succeeds sends one chunk and reports exactly the number of bytes it was
\* given; a write whose send fails sends nothing and reports 0 bytes and the
\* send error.
C26_ChunkOwnsItsBytes ==
    /\ [](\A c \in Calls : \A i \in 1..Len(LogChunks(st[c])) :
            ChunkBytes(st[c], LogChunks(st[c])[i]) = BytesGiven(st[c], i))
    /\ [][\A c \in Calls :
            WriteStep(c)
              => LET w == st'[c].lastWrite
                 IN  /\ w.given = st'[c].read - st[c].read
                     /\ w.given > 0
                     /\ IF w.err
                        THEN w.n = 0 /\ st'[c].sent = st[c].sent
                        ELSE /\ w.n = w.given
                             /\ Len(st'[c].sent) = Len(st[c].sent) + 1
                             /\ SubSeq(st'[c].sent, 1, Len(st[c].sent)) = st[c].sent]_vars

\* a chunk was sent, then the buffer was reused for other bytes whose send
\* failed
C26_Witness ==
    \E c \in Calls :
        /\ Len(LogChunks(st[c])) > 0
        /\ st[c].lastWrite.err
        /\ st[c].lastWrite.n = 0
        /\ SubSeq(st[c].buf, 1, Len(LogChunks(st[c])[1].data)) # LogChunks(st[c])[1].data

----------------------------------------------------------------------------
(* Concurrent StreamLogs calls *)

\* chunk ch on the stream of call c is that call's own: its stream-start
\* chunk, bytes its own subprocess printed, or its own error chunk
OwnChunk(c, ch) ==
    /\ ch.from = c
    /\ ch.kind = "init" => ChunkBytes(st[c], ch) = InitMsg(st[c])
    /\ ch.kind = "error" => ChunkBytes(st[c], ch) = ErrorMsg(st[c])

\* C27: when several StreamLogs calls run concurrently, each call owns its
\* own subprocess and its own writer: every chunk delivered on a stream is
\* that call's own start or error chunk or holds bytes printed by that
\* call's own subprocess, in the order it printed them, and a step of one
\* call (a cancellation and the kill that follows it included) leaves the
\* other calls, their subprocesses and their streams as they were.
C27_StreamsAreSeparate ==
    /\ [](\A c \in Calls :
            /\ \A i \in 1..Len(st[c].sent) : OwnChunk(c, st[c].sent[i])
            /\ IsPrefix(Received(st[c], LogChunks(st[c])), Emitted(st[c])))
    /\ [][\A c, d \in Calls : (c # d /\ st'[c] # st[c]) => st'[d] = st[d]]_vars

\* both calls are copying and each stream has received log bytes
C27_Witness ==
    /\ Cardinality(Calls) = 2
    /\ \A c \in Calls :
         /\ st[c].copier = "running"
         /\ st[c].proc = "running"
         /\ Len(LogChunks(st[c])) > 0

----------------------------------------------------------------------------
(* The heartbeat loop *)

\* the step is taken while a report is in flight and does not end it
DuringReport == hb.pc = "report" /\ hb'.pc = "report"

\* C28: at most one heartbeat report is in flight at any time: the scheduler
\* runs the reports one after the other in a single loop, so while a report
\* is in flight no other is started, and a tick that arrives meanwhile waits
\* in the ticker's one slot until the report has returned (a further tick
\* finds the slot full and is skipped).
C28_OneReportInFlight ==
    /\ [](hb.reports <= 1)
    /\ [](hb.reports = 1 <=> hb.pc = "report")
    /\ [][DuringReport => hb'.reports = hb.reports /\ (hb.tick => hb'.tick)]_vars

\* a report is in flight and the next tick is already waiting
C28_Witness == hb.pc = "report" /\ hb.reports = 1 /\ hb.tick

====
